---- MODULE Spec2Model ----
(***************************************************************************)
(* The message formatting engine of tarjama (src/src/formatter.rs):        *)
(* DefaultFormatter::format, parse_plural_messages, PluralMessages::       *)
(* matching, Rule::matches and format_raw, over Context                    *)
(* (src/src/context.rs); the catalogues (src/src/catalogue.rs), the locale *)
(* conversions (src/src/locale.rs) and the Translator (src/src/lib.rs).    *)
(*                                                                         *)
(* A Rust str is modelled as the sequence of its UTF-8 bytes, every byte *)
(* a one-element TLA+ string: "{" is the byte 0x7B, "C3" "A9" are the two  *)
(* bytes of U+00E9 and "CC" "81" the two bytes of the combining mark       *)
(* U+0301.  Positions are byte offsets counted from 0, as in the code.     *)
(***************************************************************************)
EXTENDS Integers, Sequences, FiniteSets, TLC

VARIABLES
    message,          \* format's message argument: the template
    values,           \* context.values
    count,            \* context.count
    pc,               \* "format" before the call, "done" after it
    plural,           \* what parse_plural_messages returned (count is Some)
    raw,              \* the message handed to format_raw
    result,           \* what format returned
    bag,              \* Translator.bag: the catalogues of the CatalogueBag
    fallback_locale,  \* Translator.fallback_locale
    call,             \* the Translator call just made, with what it returned
    cat,              \* a Catalogue being edited
    history           \* the calls made on cat, each with what it returned

vars == <<message, values, count, pc, plural, raw, result,
          bag, fallback_locale, call, cat, history>>

-----------------------------------------------------------------------------
(* Option<T> and the outcomes of a call.                                   *)

None == <<"None">>
Some(x) == <<"Some", x>>

Ok(s) == [kind |-> "Ok", text |-> s]
FormattingError(s) == [kind |-> "FormattingError", text |-> s]
NoResult == [kind |-> "NoResult", text |-> <<>>]

(* The text of a literal of the source, kept as one chunk.  The source's   *)
(* backquotes around a quoted fragment are left out of the texts.          *)
Txt(s) == <<s>>

-----------------------------------------------------------------------------
(* str: bytes, char boundaries, slices.                                    *)

LeadBytes == {"C3", "CC"}
ContinuationBytes == {"A9", "81"}
Whitespace == {" "}
Digits == <<"0", "1", "2", "3", "4", "5", "6", "7", "8", "9">>
DigitSet == {Digits[i] : i \in 1..10}

is_char_boundary(s, i) ==
    \/ i = 0
    \/ i = Len(s)
    \/ i < Len(s) /\ s[i + 1] \notin ContinuationBytes

(* &s[a..b]: the slice panics unless a <= b <= len on char boundaries.     *)
Panic == <<"!panic">>
slice(s, a, b) ==
    IF a <= b /\ b <= Len(s) /\ is_char_boundary(s, a) /\ is_char_boundary(s, b)
    THEN SubSeq(s, a + 1, b)
    ELSE Panic

(* The call unwound by a panic: no Result is returned.                     *)
Panicked == [kind |-> "Panic", text |-> Panic]

(* &v[a..b] on a Vec of strings: the slice panics unless a <= b <= len.    *)
vec_slice(v, a, b) ==
    IF a <= b /\ b <= Len(v) THEN SubSeq(v, a + 1, b) ELSE <<Panic>>

(* s.get(a..=a): None instead of a panic.                                  *)
str_get(s, a) ==
    IF a + 1 <= Len(s) /\ is_char_boundary(s, a) /\ is_char_boundary(s, a + 1)
    THEN Some(SubSeq(s, a + 1, a + 1))
    ELSE None

(* s.find(|x| x in set): offset of the first such byte, None if none.      *)
str_find(s, set) ==
    IF \E i \in 1..Len(s) : s[i] \in set
    THEN Some((CHOOSE i \in 1..Len(s) :
                  /\ s[i] \in set
                  /\ \A j \in 1..(i - 1) : s[j] \notin set) - 1)
    ELSE None

(* s.find(".."): offset of the first occurrence of the two bytes.          *)
find_dotdot(s) ==
    IF \E i \in 1..(Len(s) - 1) : s[i] = "." /\ s[i + 1] = "."
    THEN Some((CHOOSE i \in 1..(Len(s) - 1) :
                  /\ s[i] = "." /\ s[i + 1] = "."
                  /\ \A j \in 1..(i - 1) : ~(s[j] = "." /\ s[j + 1] = ".")) - 1)
    ELSE None

RECURSIVE trim_start(_)
trim_start(s) ==
    IF s # <<>> /\ Head(s) \in Whitespace THEN trim_start(Tail(s)) ELSE s

RECURSIVE trim_end(_)
trim_end(s) ==
    IF s # <<>> /\ s[Len(s)] \in Whitespace
    THEN trim_end(SubSeq(s, 1, Len(s) - 1))
    ELSE s

trim(s) == trim_end(trim_start(s))

RECURSIVE concat(_)
concat(ss) ==
    IF ss = <<>> THEN <<>>
    ELSE IF Len(ss) = 1 THEN ss[1]
    ELSE concat(SubSeq(ss, 1, Len(ss) \div 2))
         \o concat(SubSeq(ss, Len(ss) \div 2 + 1, Len(ss)))

-----------------------------------------------------------------------------
(* Integer <-> decimal text.                                               *)

RECURSIVE nat_to_string(_)
nat_to_string(n) ==
    IF n < 10 THEN <<Digits[n + 1]>>
    ELSE nat_to_string(n \div 10) \o <<Digits[(n % 10) + 1]>>

(* i64::to_string / usize::to_string                                       *)
to_string(n) == IF n < 0 THEN <<"-">> \o nat_to_string(-n) ELSE nat_to_string(n)

digit_value(d) == (CHOOSE i \in 1..10 : Digits[i] = d) - 1

RECURSIVE digits_value(_, _)
digits_value(s, acc) ==
    IF s = <<>> THEN acc
    ELSE digits_value(Tail(s), acc * 10 + digit_value(Head(s)))

ParseOk(n) == [ok |-> TRUE, val |-> n, e |-> ""]
ParseErr(e) == [ok |-> FALSE, val |-> 0, e |-> e]

all_digits(s) == \A i \in 1..Len(s) : s[i] \in DigitSet

(* str::parse::<usize>(): an optional '+', then one or more digits.  The   *)
(* overflow error needs a text of 20 digits or more, longer than any text  *)
(* of the model.                                                           *)
parse_usize(s) ==
    IF s = <<>> THEN ParseErr("cannot parse integer from empty string")
    ELSE LET body == IF Head(s) = "+" /\ Len(s) > 1 THEN Tail(s) ELSE s IN
         IF ~all_digits(body) THEN ParseErr("invalid digit found in string")
         ELSE ParseOk(digits_value(body, 0))

(* str::parse::<i64>(): an optional '+' or '-', then one or more digits.   *)
parse_i64(s) ==
    IF s = <<>> THEN ParseErr("cannot parse integer from empty string")
    ELSE LET signed == Head(s) \in {"+", "-"} /\ Len(s) > 1
             body == IF signed THEN Tail(s) ELSE s
         IN
         IF ~all_digits(body) THEN ParseErr("invalid digit found in string")
         ELSE IF signed /\ Head(s) = "-"
              THEN ParseOk(-digits_value(body, 0))
              ELSE ParseOk(digits_value(body, 0))

-----------------------------------------------------------------------------
(* Context: values is the Vec<(String, Value)> as a sequence of            *)
(* [name, text] records, text being the Display form of the Value; count   *)
(* is None or Some(i64).                                                   *)

(* The position of the last value of a name, not of the first.             *)
position_of_last(vals, name) ==
    IF \E i \in 1..Len(vals) : vals[i].name = name
    THEN Some((CHOOSE i \in 1..Len(vals) :
                  /\ vals[i].name = name
                  /\ \A j \in (i + 1)..Len(vals) : vals[j].name # name) - 1)
    ELSE None

(* context.values.iter().position(|x| x.0 == name)                         *)
position_of(vals, name) ==
    IF \E i \in 1..Len(vals) : vals[i].name = name
    THEN Some((CHOOSE i \in 1..Len(vals) :
                  /\ vals[i].name = name
                  /\ \A j \in 1..(i - 1) : vals[j].name # name) - 1)
    ELSE None

(* replace("||", "|") applied again to what it has just written.           *)
RECURSIVE replace_pipes_rescanning(_)
replace_pipes_rescanning(s) ==
    IF Len(s) < 2 THEN s
    ELSE IF s[1] = "|" /\ s[2] = "|"
         THEN replace_pipes_rescanning(Tail(s))
         ELSE <<s[1]>> \o replace_pipes_rescanning(Tail(s))

(* String::replace("||", "|"): non-overlapping, left to right: the text    *)
(* before the first match, the replacement, then the same on what follows  *)
(* the match.                                                              *)
RECURSIVE replace_pipes(_)
replace_pipes(s) ==
    LET matches == {i \in 1..(Len(s) - 1) : s[i] = "|" /\ s[i + 1] = "|"}
        after(i) ==
            SubSeq(s, 1, i - 1) \o <<"|">> \o replace_pipes(SubSeq(s, i + 2, Len(s)))
    IN
    IF matches = {} THEN s
    ELSE after(CHOOSE i \in matches : \A j \in matches : i <= j)

ErrExpectedFound(u) ==
    FormattingError(Txt("invalid format string: expected '}', found '")
                    \o u \o Txt("'."))
ErrTerminated ==
    FormattingError(Txt("invalid format string: expected '}' but string was terminated."))
ErrIndexed(idx, n) ==
    FormattingError(Txt("invalid reference to indexed value '") \o to_string(idx)
                    \o Txt("' (there is ") \o to_string(n) \o Txt(" value)."))
ErrPositional(idx, n) ==
    FormattingError(Txt("invalid reference to positional value '") \o to_string(idx)
                    \o Txt("' (there is ") \o to_string(n) \o Txt(" value)."))
ErrCannotFind(name) ==
    FormattingError(Txt("cannot find value '") \o name \o Txt("' in this context."))
ErrCount ==
    FormattingError(Txt("invalid reference to count ( {?} ) value."))

(* The tail of format_raw with the collapse applied to the rest of the     *)
(* message alone.                                                          *)
format_raw_finish_tail_only(msg, cnt, buffer, position) ==
    LET rest == slice(msg, position, Len(msg)) IN
    IF cnt # None THEN Ok(buffer \o replace_pipes(rest)) ELSE Ok(buffer \o rest)

(* The tail of format_raw: the rest of the message, then the collapse.     *)
format_raw_finish(msg, cnt, buffer, position) ==
    LET out == buffer \o slice(msg, position, Len(msg)) IN
    IF cnt # None THEN Ok(replace_pipes(out)) ELSE Ok(out)

(* placeholder_value with the indexed error raised for a positional        *)
(* reference out of range.                                                 *)
placeholder_value_indexed_error(vals, cnt, argument_value_index) ==
    IF argument_value_index # None
    THEN LET index == argument_value_index[2] IN
         IF index < Len(vals)
         THEN Ok(vals[index + 1].text)
         ELSE ErrIndexed(index, Len(vals))
    ELSE IF cnt # None
    THEN Ok(to_string(cnt[2]))
    ELSE ErrCount

(* placeholder_value with a missing count read as 0.                       *)
placeholder_value_zero_count(vals, cnt, argument_value_index) ==
    IF argument_value_index # None
    THEN LET index == argument_value_index[2] IN
         IF index < Len(vals)
         THEN Ok(vals[index + 1].text)
         ELSE ErrPositional(index, Len(vals))
    ELSE IF cnt # None
    THEN Ok(to_string(cnt[2]))
    ELSE Ok(to_string(0))

(* The value pushed for a placeholder, or the error it raises.             *)
(* argument_value_index is None (the count) or Some(index).                *)
placeholder_value(vals, cnt, argument_value_index) ==
    IF argument_value_index # None
    THEN LET index == argument_value_index[2] IN
         IF index < Len(vals)
         THEN Ok(vals[index + 1].text)
         ELSE ErrPositional(index, Len(vals))
    ELSE IF cnt # None
    THEN Ok(to_string(cnt[2]))
    ELSE ErrCount

(* argument_index with every placeholder advancing arg_idx.                *)
argument_index_advancing(msg, vals, arg_idx, current_position, left_curly_brackets_position) ==
    LET argument_name ==
            trim(slice(msg, current_position + 1, left_curly_brackets_position))
        n == parse_usize(argument_name)
        p == position_of(vals, argument_name)
    IN
    IF current_position = left_curly_brackets_position - 1
    THEN IF Len(vals) < arg_idx + 1
         THEN [err |-> ErrIndexed(arg_idx + 1 - 1, Len(vals)), idx |-> None,
               arg |-> arg_idx + 1]
         ELSE [err |-> NoResult, idx |-> Some(arg_idx + 1 - 1), arg |-> arg_idx + 1]
    ELSE IF n.ok
    THEN [err |-> NoResult, idx |-> Some(n.val), arg |-> arg_idx + 1]
    ELSE IF p # None
    THEN [err |-> NoResult, idx |-> p, arg |-> arg_idx + 1]
    ELSE IF argument_name = <<"?">>
    THEN [err |-> NoResult, idx |-> None, arg |-> arg_idx + 1]
    ELSE [err |-> ErrCannotFind(argument_name), idx |-> None, arg |-> arg_idx]

(* argument_index with the name left untrimmed.                            *)
argument_index_untrimmed(msg, vals, arg_idx, current_position, left_curly_brackets_position) ==
    LET argument_name ==
            slice(msg, current_position + 1, left_curly_brackets_position)
        n == parse_usize(argument_name)
        p == position_of(vals, argument_name)
    IN
    IF current_position = left_curly_brackets_position - 1
    THEN IF Len(vals) < arg_idx + 1
         THEN [err |-> ErrIndexed(arg_idx + 1 - 1, Len(vals)), idx |-> None,
               arg |-> arg_idx + 1]
         ELSE [err |-> NoResult, idx |-> Some(arg_idx + 1 - 1), arg |-> arg_idx + 1]
    ELSE IF n.ok
    THEN [err |-> NoResult, idx |-> Some(n.val), arg |-> arg_idx]
    ELSE IF p # None
    THEN [err |-> NoResult, idx |-> p, arg |-> arg_idx]
    ELSE IF argument_name = <<"?">>
    THEN [err |-> NoResult, idx |-> None, arg |-> arg_idx]
    ELSE [err |-> ErrCannotFind(argument_name), idx |-> None, arg |-> arg_idx]

(* argument_index with the count looked at before the names.               *)
argument_index_count_first(msg, vals, arg_idx, current_position, left_curly_brackets_position) ==
    LET argument_name ==
            trim(slice(msg, current_position + 1, left_curly_brackets_position))
        n == parse_usize(argument_name)
        p == position_of(vals, argument_name)
    IN
    IF current_position = left_curly_brackets_position - 1
    THEN IF Len(vals) < arg_idx + 1
         THEN [err |-> ErrIndexed(arg_idx + 1 - 1, Len(vals)), idx |-> None,
               arg |-> arg_idx + 1]
         ELSE [err |-> NoResult, idx |-> Some(arg_idx + 1 - 1), arg |-> arg_idx + 1]
    ELSE IF n.ok
    THEN [err |-> NoResult, idx |-> Some(n.val), arg |-> arg_idx]
    ELSE IF argument_name = <<"?">>
    THEN [err |-> NoResult, idx |-> None, arg |-> arg_idx]
    ELSE IF p # None
    THEN [err |-> NoResult, idx |-> p, arg |-> arg_idx]
    ELSE [err |-> ErrCannotFind(argument_name), idx |-> None, arg |-> arg_idx]

(* argument_index with the indexed case decided on the trimmed name.       *)
argument_index_trimmed_empty(msg, vals, arg_idx, current_position, left_curly_brackets_position) ==
    LET argument_name ==
            trim(slice(msg, current_position + 1, left_curly_brackets_position))
        n == parse_usize(argument_name)
        p == position_of(vals, argument_name)
    IN
    IF argument_name = <<>>
    THEN IF Len(vals) < arg_idx + 1
         THEN [err |-> ErrIndexed(arg_idx + 1 - 1, Len(vals)), idx |-> None,
               arg |-> arg_idx + 1]
         ELSE [err |-> NoResult, idx |-> Some(arg_idx + 1 - 1), arg |-> arg_idx + 1]
    ELSE IF n.ok
    THEN [err |-> NoResult, idx |-> Some(n.val), arg |-> arg_idx]
    ELSE IF p # None
    THEN [err |-> NoResult, idx |-> p, arg |-> arg_idx]
    ELSE IF argument_name = <<"?">>
    THEN [err |-> NoResult, idx |-> None, arg |-> arg_idx]
    ELSE [err |-> ErrCannotFind(argument_name), idx |-> None, arg |-> arg_idx]

(* How the content of a placeholder names its value: the indexed case is   *)
(* decided on the raw positions, the others on the trimmed name.           *)
(* Returns [err, idx, arg] with arg the new arg_idx.                       *)
argument_index(msg, vals, arg_idx, current_position, left_curly_brackets_position) ==
    LET argument_name ==
            trim(slice(msg, current_position + 1, left_curly_brackets_position))
        n == parse_usize(argument_name)
        p == position_of(vals, argument_name)
    IN
    IF slice(msg, current_position + 1, left_curly_brackets_position) = Panic
    THEN [err |-> Panicked, idx |-> None, arg |-> arg_idx]
    ELSE IF current_position = left_curly_brackets_position - 1
    THEN IF Len(vals) < arg_idx + 1
         THEN [err |-> ErrIndexed(arg_idx + 1 - 1, Len(vals)), idx |-> None,
               arg |-> arg_idx + 1]
         ELSE [err |-> NoResult, idx |-> Some(arg_idx + 1 - 1), arg |-> arg_idx + 1]
    ELSE IF n.ok
    THEN [err |-> NoResult, idx |-> Some(n.val), arg |-> arg_idx]
    ELSE IF p # None
    THEN [err |-> NoResult, idx |-> p, arg |-> arg_idx]
    ELSE IF argument_name = <<"?">>
    THEN [err |-> NoResult, idx |-> None, arg |-> arg_idx]
    ELSE [err |-> ErrCannotFind(argument_name), idx |-> None, arg |-> arg_idx]

(* An escape that skips one brace only.                                    *)
after_escape_one(current_position) == current_position + 1

(* An escape that moves the position one byte too far.                    *)
after_escape_far(current_position) == current_position + 3

(* position = current_position + 2: past both braces of an escape.        *)
after_escape(current_position) == current_position + 2

(* message.get(current_position + 1..=current_position + 1) == Some("{")   *)
open_is_escaped(msg, current_position) ==
    str_get(msg, current_position + 1) = Some(<<"{">>)

(* The while loop of format_raw, one iteration per call: the iteration     *)
(* returns from format_raw or goes on with the buffer, arg_idx and         *)
(* position it leaves.  A slice out of bounds or off a char boundary       *)
(* unwinds the call.                                                       *)
RECURSIVE format_raw_loop(_, _, _, _, _, _)
format_raw_loop(msg, vals, cnt, buffer, arg_idx, position) ==
    LET return(r) ==
            [returns |-> TRUE, result |-> r, buffer |-> <<>>, arg_idx |-> 0,
             position |-> 0]
        continue(b, a, p) ==
            [returns |-> FALSE, result |-> NoResult, buffer |-> b, arg_idx |-> a,
             position |-> p]
        iteration ==
        LET found == str_find(slice(msg, position, Len(msg)), {"{", "}"}) IN
        IF slice(msg, position, Len(msg)) = Panic
        THEN return(Panicked)
        ELSE IF found = None
        THEN return(format_raw_finish(msg, cnt, buffer, position))
        ELSE IF Len(msg) - position < found[2] + 1
        THEN return(format_raw_finish(msg, cnt, buffer, position))
        ELSE
        LET current_position == found[2] + position IN
        IF str_get(msg, current_position) = Some(<<"}">>)
        THEN \* Skip escaped }
             LET next == str_get(msg, current_position + 1) IN
             IF slice(msg, position, current_position + 1) = Panic
             THEN return(Panicked)
             ELSE IF next = Some(<<"}">>)
             THEN continue(buffer \o slice(msg, position, current_position + 1),
                           arg_idx, after_escape(current_position))
             ELSE IF next # None
             THEN return(ErrExpectedFound(next[2]))
             ELSE return(ErrTerminated)
        ELSE IF open_is_escaped(msg, current_position)
        THEN \* Skip escaped {
             IF slice(msg, position, current_position + 1) = Panic
             THEN return(Panicked)
             ELSE continue(buffer \o slice(msg, position, current_position + 1),
                           arg_idx, after_escape(current_position))
        ELSE
        LET close == str_find(slice(msg, current_position, Len(msg)), {"}"}) IN
        IF slice(msg, current_position, Len(msg)) = Panic
        THEN return(Panicked)
        ELSE IF close = None
        THEN return(ErrTerminated)
        ELSE
        LET left_curly_brackets_position == close[2] + current_position
            a == argument_index(msg, vals, arg_idx, current_position,
                                left_curly_brackets_position)
            v == placeholder_value(vals, cnt, a.idx)
        IN
        IF a.err # NoResult THEN return(a.err)
        ELSE IF slice(msg, position, current_position) = Panic
        THEN return(Panicked)
        ELSE IF v.kind # "Ok" THEN return(v)
        ELSE continue(buffer \o slice(msg, position, current_position) \o v.text,
                      a.arg, left_curly_brackets_position + 1)
        after(it) ==
            IF it.returns THEN it.result
            ELSE format_raw_loop(msg, vals, cnt, it.buffer, it.arg_idx, it.position)
    IN after(iteration)

(* A substitutor that scans what it has emitted once more.                 *)
format_raw_rescanning(msg, vals, cnt) ==
    LET emitted == format_raw_loop(msg, vals, cnt, <<>>, 0, 0) IN
    IF emitted.kind = "Ok"
    THEN format_raw_loop(emitted.text, vals, cnt, <<>>, 0, 0)
    ELSE emitted

(* format_raw: the buffer starts empty, at position 0 and arg_idx 0.       *)
format_raw(msg, vals, cnt) == format_raw_loop(msg, vals, cnt, <<>>, 0, 0)

-----------------------------------------------------------------------------
(* Rule and PluralMessages.                                                *)

RangeTo(to) == [type |-> "RangeTo", from |-> 0, to |-> to, values |-> <<>>]
RangeFrom(from) == [type |-> "RangeFrom", from |-> from, to |-> 0, values |-> <<>>]
Range(from, to) == [type |-> "Range", from |-> from, to |-> to, values |-> <<>>]
Match(vs) == [type |-> "Match", from |-> 0, to |-> 0, values |-> vs]

(* Rule::matches with the upper end of a Range left out.                   *)
matches_exclusive(rule, value) ==
    CASE rule.type = "RangeTo" -> value <= rule.to
      [] rule.type = "RangeFrom" -> value >= rule.from
      [] rule.type = "Range" -> value >= rule.from /\ value < rule.to
      [] rule.type = "Match" ->
            \E i \in 1..Len(rule.values) : rule.values[i] = value

(* Rule::matches                                                           *)
matches(rule, value) ==
    CASE rule.type = "RangeTo" -> value <= rule.to
      [] rule.type = "RangeFrom" -> value >= rule.from
      [] rule.type = "Range" -> value >= rule.from /\ value <= rule.to
      [] rule.type = "Match" ->
            \E i \in 1..Len(rule.values) : rule.values[i] = value

(* PluralMessages::matching                                                *)
RECURSIVE matching_from(_, _, _, _)
matching_from(rules, default, value, i) ==
    IF i > Len(rules) THEN default
    ELSE IF matches(rules[i].rule, value) THEN rules[i].message
    ELSE matching_from(rules, default, value, i + 1)

matching(plural_messages, value) ==
    matching_from(plural_messages.rules, plural_messages.default, value, 1)

-----------------------------------------------------------------------------
(* Grapheme clusters (unicode_segmentation): a char is one byte, or a lead *)
(* byte with its continuation byte; the combining mark U+0301 extends the  *)
(* cluster of the char before it.                                          *)

ExtendChars == {<<"CC", "81">>}

RECURSIVE chars(_)
chars(s) ==
    IF s = <<>> THEN <<>>
    ELSE IF Head(s) \in LeadBytes /\ Len(s) >= 2
         THEN <<SubSeq(s, 1, 2)>> \o chars(SubSeq(s, 3, Len(s)))
         ELSE LET leads == {i \in 2..Len(s) : s[i] \in LeadBytes}
                  run(n) ==
                      [i \in 1..n |-> <<s[i]>>] \o chars(SubSeq(s, n + 1, Len(s)))
              IN IF leads = {} THEN run(Len(s))
                 ELSE run((CHOOSE i \in leads : \A j \in leads : i <= j) - 1)

RECURSIVE clusters(_, _)
clusters(cs, acc) ==
    IF cs = <<>> THEN acc
    ELSE IF Head(cs) \in ExtendChars /\ acc # <<>>
         THEN clusters(Tail(cs),
                       [acc EXCEPT ![Len(acc)] = acc[Len(acc)] \o Head(cs)])
         ELSE LET extends == {i \in 2..Len(cs) : cs[i] \in ExtendChars}
                  run(n) ==
                      clusters(SubSeq(cs, n + 1, Len(cs)), acc \o SubSeq(cs, 1, n))
              IN IF extends = {} THEN run(Len(cs))
                 ELSE run((CHOOSE i \in extends : \A j \in extends : i <= j) - 1)

graphemes_of(s) == clusters(chars(s), <<>>)

(* The iterations of the while loop over graphemes other than a pipe do    *)
(* nothing but s = 0 and i += 1: the value of i at the next pipe at or      *)
(* after i, or at the end of the loop.                                     *)
next_pipe(graphemes, i) ==
    LET pipes == {k \in (i + 1)..Len(graphemes) : graphemes[k] = <<"|">>} IN
    IF pipes # {}
    THEN (CHOOSE k \in pipes : \A j \in pipes : k <= j) - 1
    ELSE Len(graphemes)

(* The while loop without the test of the parity of s.                     *)
RECURSIVE split_loop_any_parity(_, _, _, _, _)
split_loop_any_parity(graphemes, i, s, start, messages) ==
    IF ~(i < Len(graphemes))
    THEN IF start < Len(graphemes)
         THEN Append(messages,
                     trim(concat(SubSeq(graphemes, start + 1, Len(graphemes)))))
         ELSE messages
    ELSE IF graphemes[i + 1] = <<"|">>
    THEN IF i + 1 < Len(graphemes) /\ graphemes[i + 2] # <<"|">>
         THEN split_loop_any_parity(graphemes, i + 1, s + 1, i + 1,
                  Append(messages, trim(concat(SubSeq(graphemes, start + 1, i)))))
         ELSE split_loop_any_parity(graphemes, i + 1, s + 1, start, messages)
    ELSE split_loop_any_parity(graphemes, next_pipe(graphemes, i + 1), 0, start,
                               messages)

(* The while loop over the graphemes: i, s and start as in the code.       *)
RECURSIVE split_loop(_, _, _, _, _)
split_loop(graphemes, i, s, start, messages) ==
    IF ~(i < Len(graphemes))
    THEN IF start < Len(graphemes)
         THEN Append(messages,
                     trim(concat(vec_slice(graphemes, start, Len(graphemes)))))
         ELSE messages
    ELSE IF graphemes[i + 1] = <<"|">>
    THEN IF i + 1 < Len(graphemes) /\ graphemes[i + 2] # <<"|">> /\ (s + 1) % 2 # 0
         THEN split_loop(graphemes, i + 1, s + 1, i + 1,
                  Append(messages, trim(concat(vec_slice(graphemes, start, i)))))
         ELSE split_loop(graphemes, i + 1, s + 1, start, messages)
    ELSE split_loop(graphemes, next_pipe(graphemes, i + 1), 0, start, messages)

(* The segments without the test that the trimmed message is not empty.    *)
split_messages_keeping_empty(msg) ==
    LET m == trim(msg) IN
    IF "|" \notin {m[i] : i \in 1..Len(m)}
    THEN <<m>>
    ELSE split_loop(graphemes_of(m), 0, 0, 0, <<>>)

(* The segments with a message that has no pipe pushed untrimmed.          *)
split_messages_untrimmed(msg) ==
    LET m == trim(msg) IN
    IF "|" \notin {m[i] : i \in 1..Len(m)}
    THEN IF m # <<>> THEN <<msg>> ELSE <<>>
    ELSE split_loop(graphemes_of(m), 0, 0, 0, <<>>)

(* The first half of parse_plural_messages: the trimmed segments.          *)
split_messages(msg) ==
    LET m == trim(msg) IN
    IF "|" \notin {m[i] : i \in 1..Len(m)}
    THEN IF m # <<>> THEN <<m>> ELSE <<>>
    ELSE split_loop(graphemes_of(m), 0, 0, 0, <<>>)

(* str::split(','): the pieces between the commas, empty ones included.    *)
RECURSIVE split_comma(_, _)
split_comma(s, piece) ==
    IF s = <<>> THEN <<piece>>
    ELSE IF Head(s) = "," THEN <<piece>> \o split_comma(Tail(s), <<>>)
    ELSE split_comma(Tail(s), Append(piece, Head(s)))

ErrRule(what, segment, e) ==
    FormattingError(Txt("formatting: failed to parse '") \o Txt(what)
                    \o Txt("' value in ") \o Txt(segment.kind) \o Txt(" rule for '")
                    \o segment.text \o Txt("', ") \o Txt(e) \o Txt("."))
ErrMatchValue(value_str, segment, e) ==
    FormattingError(Txt("formatting: failed to parse value '") \o value_str
                    \o Txt("' in match rule for '") \o segment \o Txt("', ")
                    \o Txt(e) \o Txt("."))
ErrNoClosing(segment) ==
    FormattingError(Txt("formatting: failed to parse rule for '") \o segment
                    \o Txt("', expected '}' but string was terminated."))
(* The missing-{ error without the text of the segment.                    *)
ErrNoOpening_unquoted(segment) ==
    FormattingError(Txt("formatting: failed to parse rule, expected '{' but string was terminated."))
ErrNoOpening(segment) ==
    FormattingError(Txt("formatting: failed to parse rule for '") \o segment
                    \o Txt("', expected '{' but string was terminated."))
ErrNoDefault ==
    FormattingError(Txt("formatting: failed to parse plural messages, expected at least a default message but string was terminated."))

RuleOk(rule) == [kind |-> "Ok", rule |-> rule, text |-> <<>>]

(* The values of a match rule, the first bad token aborting.               *)
RECURSIVE match_values(_, _, _)
match_values(pieces, segment, vs) ==
    IF pieces = <<>> THEN RuleOk(Match(vs))
    ELSE LET value_str == trim(Head(pieces))
             v == parse_i64(value_str)
         IN IF v.ok THEN match_values(Tail(pieces), segment, Append(vs, v.val))
            ELSE [kind |-> "FormattingError", rule |-> Match(<<>>),
                  text |-> ErrMatchValue(value_str, segment, v.e).text]

(* The rule of a clause: rule_string is the text between the braces.       *)
parse_rule(rule_string, segment) ==
    LET sep == find_dotdot(rule_string)
        bad(what, kind, e) ==
            [kind |-> "FormattingError", rule |-> Match(<<>>),
             text |-> ErrRule(what, [kind |-> kind, text |-> segment], e).text]
        panicked == [kind |-> "Panic", rule |-> Match(<<>>), text |-> Panic]
    IN
    IF sep # None
    THEN LET sep_position == sep[2] IN
         IF sep_position = 0
         THEN LET to == parse_i64(slice(rule_string, 2, Len(rule_string))) IN
              IF slice(rule_string, 2, Len(rule_string)) = Panic THEN panicked
              ELSE IF to.ok THEN RuleOk(RangeTo(to.val))
              ELSE bad("to", "range-to", to.e)
         ELSE IF sep_position = Len(rule_string) - 2
         THEN LET from == parse_i64(slice(rule_string, 0, sep_position)) IN
              IF slice(rule_string, 0, sep_position) = Panic THEN panicked
              ELSE IF from.ok THEN RuleOk(RangeFrom(from.val))
              ELSE bad("from", "range-from", from.e)
         ELSE LET from == parse_i64(slice(rule_string, 0, sep_position))
                  to == parse_i64(slice(rule_string, sep_position + 2,
                                        Len(rule_string)))
              IN IF slice(rule_string, 0, sep_position) = Panic THEN panicked
                 ELSE IF ~from.ok THEN bad("from", "range", from.e)
                 ELSE IF slice(rule_string, sep_position + 2,
                               Len(rule_string)) = Panic THEN panicked
                 ELSE IF ~to.ok THEN bad("to", "range", to.e)
                 ELSE RuleOk(Range(from.val, to.val))
    ELSE match_values(split_comma(rule_string, <<>>), segment, <<>>)

(* The for loop over the non-final segments.                               *)
(* The rules loop ending at the first segment it cannot parse, with the    *)
(* rules it has.                                                           *)
RECURSIVE parse_rules_stopping(_, _, _)
parse_rules_stopping(segments, i, rules) ==
    IF i > Len(segments) THEN [kind |-> "Ok", rules |-> rules, text |-> <<>>]
    ELSE
    LET segment == segments[i] IN
    IF segment # <<>> /\ Head(segment) = "{" /\ str_find(segment, {"}"}) # None
    THEN LET ending_position == str_find(segment, {"}"})[2]
             rule_string == slice(segment, 1, ending_position)
             target == trim(slice(segment, ending_position + 1, Len(segment)))
             with_rule(r) ==
                 IF r.kind = "Ok"
                 THEN parse_rules_stopping(segments, i + 1,
                          Append(rules, [message |-> target, rule |-> r.rule]))
                 ELSE [kind |-> "Ok", rules |-> rules, text |-> <<>>]
         IN with_rule(parse_rule(rule_string, segment))
    ELSE [kind |-> "Ok", rules |-> rules, text |-> <<>>]

RECURSIVE parse_rules(_, _, _)
parse_rules(segments, i, rules) ==
    IF i > Len(segments) THEN [kind |-> "Ok", rules |-> rules, text |-> <<>>]
    ELSE
    LET segment == segments[i] IN
    IF segment # <<>> /\ Head(segment) = "{"
    THEN LET ending == str_find(segment, {"}"}) IN
         IF ending # None
         THEN LET ending_position == ending[2]
                  rule_string == slice(segment, 1, ending_position)
                  target == trim(slice(segment, ending_position + 1, Len(segment)))
                  with_rule(r) ==
                      IF r.kind = "Ok"
                      THEN parse_rules(segments, i + 1,
                               Append(rules, [message |-> target, rule |-> r.rule]))
                      ELSE [kind |-> r.kind, rules |-> <<>>, text |-> r.text]
              IN IF Panic \in {rule_string, target}
                 THEN [kind |-> "Panic", rules |-> <<>>, text |-> Panic]
                 ELSE with_rule(parse_rule(rule_string, segment))
         ELSE [kind |-> "FormattingError", rules |-> <<>>,
               text |-> ErrNoClosing(segment).text]
    ELSE [kind |-> "FormattingError", rules |-> <<>>,
          text |-> ErrNoOpening(segment).text]

(* parse_plural_messages with the last segment read as the others are: a   *)
(* clause at its head is taken off the default.                            *)
parse_plural_messages_last_as_rule(msg) ==
    LET without_clause(last) ==
            IF last # <<>> /\ Head(last) = "{" /\ str_find(last, {"}"}) # None
            THEN trim(slice(last, str_find(last, {"}"})[2] + 1, Len(last)))
            ELSE last
        with_rules(messages, r) ==
            [kind |-> r.kind, rules |-> r.rules,
             default |-> without_clause(messages[Len(messages)]),
             text |-> r.text]
        split_last(messages) ==
            IF messages # <<>>
            THEN with_rules(messages,
                     parse_rules(SubSeq(messages, 1, Len(messages) - 1), 1, <<>>))
            ELSE [kind |-> "FormattingError", rules |-> <<>>, default |-> <<>>,
                  text |-> ErrNoDefault.text]
    IN split_last(split_messages(msg))

parse_plural_messages(msg) ==
    LET with_rules(messages, r) ==
            IF \E i \in 1..Len(messages) : messages[i] = Panic
            THEN [kind |-> "Panic", rules |-> <<>>, default |-> <<>>,
                  text |-> Panic]
            ELSE [kind |-> r.kind, rules |-> r.rules,
                  default |-> messages[Len(messages)], text |-> r.text]
        split_last(messages) ==
            IF messages # <<>>
            THEN with_rules(messages,
                     parse_rules(SubSeq(messages, 1, Len(messages) - 1), 1, <<>>))
            ELSE [kind |-> "FormattingError", rules |-> <<>>, default |-> <<>>,
                  text |-> ErrNoDefault.text]
    IN split_last(split_messages(msg))

(* format with the template trimmed whether or not there is a count.       *)
format_trimming(msg, vals, cnt) ==
    IF cnt # None
    THEN LET parsed == parse_plural_messages(msg) IN
         IF parsed.kind # "Ok"
         THEN [plural |-> Some(parsed), raw |-> None,
               result |-> FormattingError(parsed.text)]
         ELSE LET selected == matching(parsed, cnt[2]) IN
              [plural |-> Some(parsed), raw |-> Some(selected),
               result |-> format_raw(selected, vals, cnt)]
    ELSE [plural |-> None, raw |-> Some(trim(msg)),
          result |-> format_raw(trim(msg), vals, cnt)]

(* format that substitutes in the message of every rule before it selects  *)
(* one, and fails where one of them fails.                                 *)
format_substituting_all(msg, vals, cnt) ==
    LET with_selected(parsed, selected) ==
            LET others == [i \in 1..Len(parsed.rules) |->
                              format_raw(parsed.rules[i].message, vals, cnt)]
                bad == {i \in 1..Len(others) : others[i].kind # "Ok"}
            IN [plural |-> Some(parsed), raw |-> Some(selected),
                result |-> IF bad # {}
                           THEN others[CHOOSE i \in bad : \A j \in bad : i <= j]
                           ELSE format_raw(selected, vals, cnt)]
        with_parsed(parsed) ==
            IF parsed.kind # "Ok"
            THEN [plural |-> Some(parsed), raw |-> None,
                  result |-> [kind |-> parsed.kind, text |-> parsed.text]]
            ELSE with_selected(parsed, matching(parsed, cnt[2]))
    IN
    IF cnt # None
    THEN with_parsed(parse_plural_messages(msg))
    ELSE [plural |-> None, raw |-> Some(msg),
          result |-> format_raw(msg, vals, cnt)]

(* DefaultFormatter::format; the locale argument is not read.  The record *)
(* holds the call's locals with its result: plural is what                 *)
(* parse_plural_messages returned, raw the message handed to format_raw.   *)
format(msg, vals, cnt) ==
    LET with_selected(parsed, selected) ==
            [plural |-> Some(parsed), raw |-> Some(selected),
             result |-> format_raw(selected, vals, cnt)]
        with_parsed(parsed) ==
            IF parsed.kind # "Ok"
            THEN [plural |-> Some(parsed), raw |-> None,
                  result |-> [kind |-> parsed.kind, text |-> parsed.text]]
            ELSE with_selected(parsed, matching(parsed, cnt[2]))
    IN
    IF cnt # None
    THEN with_parsed(parse_plural_messages(msg))
    ELSE [plural |-> None, raw |-> Some(msg),
          result |-> format_raw(msg, vals, cnt)]

-----------------------------------------------------------------------------
(* Locale (src/src/locale.rs).  Of the locales of the enum the model keeps *)
(* four; every other code is no locale of the model.                       *)

English_Default == "Locale::English(EnglishVariant::Default)"
English_UnitedStates == "Locale::English(EnglishVariant::UnitedStates)"
French_Default == "Locale::French(FrenchVariant::Default)"
French_Canada == "Locale::French(FrenchVariant::Canada)"
Locales == {English_Default, English_UnitedStates, French_Default, French_Canada}

InvalidLocale(text) == [kind |-> "InvalidLocale", text |-> text]
MessageNotFound(locale, domain, id) ==
    [kind |-> "MessageNotFound", text |-> <<locale, domain, id>>]

(* value.replace("-", "_")                                                 *)
replace_dash(value) == [i \in 1..Len(value) |-> IF value[i] = "-" THEN "_" ELSE value[i]]

LocaleOk(locale) == [ok |-> TRUE, locale |-> locale, error |-> NoResult]
LocaleErr(error) == [ok |-> FALSE, locale |-> "", error |-> error]

(* impl TryFrom<&str> for Locale                                           *)
locale_try_from(text) ==
    LET value == replace_dash(text) IN
    IF value = <<"e", "n">> THEN LocaleOk(English_Default)
    ELSE IF value = <<"e", "n", "_", "U", "S">> THEN LocaleOk(English_UnitedStates)
    ELSE IF value = <<"f", "r">> THEN LocaleOk(French_Default)
    ELSE IF value = <<"f", "r", "_", "C", "A">> THEN LocaleOk(French_Canada)
    ELSE LocaleErr(InvalidLocale(value))

(* impl Display for Locale                                                 *)
locale_to_string(locale) ==
    IF locale = English_Default THEN <<"e", "n">>
    ELSE IF locale = English_UnitedStates THEN <<"e", "n", "_", "U", "S">>
    ELSE IF locale = French_Default THEN <<"f", "r">>
    ELSE <<"f", "r", "_", "C", "A">>

(* The locale argument of trans, T: TryInto<Locale> + Display: a &str or a *)
(* Locale.                                                                 *)
StrArg(text) == [type |-> "str", text |-> text, locale |-> ""]
LocaleArg(locale) == [type |-> "Locale", text |-> <<>>, locale |-> locale]

display(locale_like) ==
    IF locale_like.type = "str" THEN locale_like.text
    ELSE locale_to_string(locale_like.locale)

try_into(locale_like) ==
    IF locale_like.type = "str" THEN locale_try_from(locale_like.text)
    ELSE LocaleOk(locale_like.locale)

-----------------------------------------------------------------------------
(* Catalogue and CatalogueBag (src/src/catalogue.rs).  A HashMap is a      *)
(* function on the set of its keys.                                        *)

EmptyMap == <<>>
HasKey(map, key) == key \in DOMAIN map
map_insert(map, key, value) ==
    [k \in (DOMAIN map) \cup {key} |-> IF k = key THEN value ELSE map[k]]
map_remove(map, key) == [k \in (DOMAIN map) \ {key} |-> map[k]]

Catalogue(locale, messages) == [locale |-> locale, messages |-> messages]
Catalogue_new(locale) == Catalogue(locale, EmptyMap)

Ret(catalogue, ret) == [catalogue |-> catalogue, ret |-> ret]

(* Catalogue::get                                                          *)
Catalogue_get(catalogue, domain, id) ==
    IF HasKey(catalogue.messages, domain)
    THEN IF HasKey(catalogue.messages[domain], id)
         THEN Some(catalogue.messages[domain][id])
         ELSE None
    ELSE None

(* Catalogue::insert: the catalogue after the call and what it returned.   *)
Catalogue_insert(catalogue, domain, id, msg) ==
    IF HasKey(catalogue.messages, domain)
    THEN Ret(Catalogue(catalogue.locale,
                 map_insert(catalogue.messages, domain,
                            map_insert(catalogue.messages[domain], id, msg))),
             IF HasKey(catalogue.messages[domain], id)
             THEN Some(catalogue.messages[domain][id]) ELSE None)
    ELSE Ret(Catalogue(catalogue.locale,
                 map_insert(catalogue.messages, domain,
                            map_insert(EmptyMap, id, msg))),
             None)

(* remove that takes the whole domain away with the message.               *)
Catalogue_remove_domain(catalogue, domain, id) ==
    IF HasKey(catalogue.messages, domain)
    THEN Ret(Catalogue(catalogue.locale, map_remove(catalogue.messages, domain)),
             IF HasKey(catalogue.messages[domain], id)
             THEN Some(catalogue.messages[domain][id]) ELSE None)
    ELSE Ret(catalogue, None)

(* Catalogue::remove                                                       *)
Catalogue_remove(catalogue, domain, id) ==
    IF HasKey(catalogue.messages, domain)
    THEN Ret(Catalogue(catalogue.locale,
                 map_insert(catalogue.messages, domain,
                            map_remove(catalogue.messages[domain], id))),
             IF HasKey(catalogue.messages[domain], id)
             THEN Some(catalogue.messages[domain][id]) ELSE None)
    ELSE Ret(catalogue, None)

(* Catalogue::remove_all                                                   *)
Catalogue_remove_all(catalogue, domain) ==
    IF HasKey(catalogue.messages, domain)
    THEN Ret(Catalogue(catalogue.locale, map_remove(catalogue.messages, domain)),
             Some(catalogue.messages[domain]))
    ELSE Ret(catalogue, None)

(* CatalogueBag::insert and CatalogueBag::append                           *)
CatalogueBag_insert(catalogues, catalogue) == Append(catalogues, catalogue)
CatalogueBag_append(catalogues, other) == catalogues \o other

(* CatalogueBag::get that takes every catalogue of the language of the     *)
(* locale.                                                                 *)
CatalogueBag_get_by_language(catalogues, locale) ==
    LET language(l) ==
            IF l \in {English_Default, English_UnitedStates} THEN "en" ELSE "fr"
    IN SelectSeq(catalogues, LAMBDA c : language(c.locale) = language(locale))

(* CatalogueBag::get: the catalogues of the locale, in the order of the    *)
(* bag.                                                                    *)
CatalogueBag_get(catalogues, locale) ==
    SelectSeq(catalogues, LAMBDA c : c.locale = locale)

-----------------------------------------------------------------------------
(* Translator (src/src/lib.rs).                                            *)

(* A formatter that applies the French plural rule (zero counts as one).   *)
formatter_format_french(locale, msg, vals, cnt) ==
    IF locale \in {French_Default, French_Canada} /\ cnt = Some(0)
    THEN format(msg, vals, Some(1))
    ELSE format(msg, vals, cnt)

(* Formatter::format as trans calls it, on DefaultFormatter: the locale is *)
(* accepted and not read.                                                  *)
formatter_format(locale, msg, vals, cnt) == format(msg, vals, cnt)

(* set_fallback_locale that keeps the fallback when handed None.           *)
set_fallback_locale_sticky(current, fallback) ==
    IF fallback = None THEN current ELSE fallback

(* Translator::set_fallback_locale: the field after the call.              *)
set_fallback_locale(current, fallback) == fallback

(* The loop without its break: the message of the last that has one.       *)
RECURSIVE last_message(_, _, _)
last_message(catalogues, domain, id) ==
    IF catalogues = <<>> THEN None
    ELSE IF last_message(Tail(catalogues), domain, id) # None
         THEN last_message(Tail(catalogues), domain, id)
         ELSE Catalogue_get(Head(catalogues), domain, id)

(* The loop over the catalogues: the message of the first that has one.    *)
RECURSIVE first_message(_, _, _)
first_message(catalogues, domain, id) ==
    IF catalogues = <<>> THEN None
    ELSE IF Catalogue_get(Head(catalogues), domain, id) # None
         THEN Catalogue_get(Head(catalogues), domain, id)
         ELSE first_message(Tail(catalogues), domain, id)

(* The error of the conversion passed on as it is.                         *)
map_err_passing(error, locale_string) == error

(* .map_err(|_| Error::InvalidLocale(locale_string))                       *)
map_err(error, locale_string) == InvalidLocale(locale_string)

(* The error of a failed lookup carrying the fallback locale.               *)
not_found_in_fallback(locale, fallback, domain, id) ==
    MessageNotFound(IF fallback # None THEN fallback[2] ELSE locale, domain, id)

(* Err(Error::MessageNotFound(locale, domain.to_string(), id.to_string())) *)
(* at the end of trans, where self.fallback_locale is in scope.            *)
not_found(locale, fallback, domain, id) == MessageNotFound(locale, domain, id)

(* trans that turns to the fallback locale also when the message of the    *)
(* requested locale does not format.                                       *)
trans_retrying(catalogues, fallback, locale_like, domain, id, vals, cnt) ==
    LET with_first(locale, msg, first) ==
            IF msg # None /\ first.result.kind = "Ok"
            THEN [error |-> None, message |-> msg, via |-> "locale",
                  formatted |-> Some(first), lookups |-> <<locale>>]
            ELSE IF fallback # None
                    /\ first_message(CatalogueBag_get(catalogues, fallback[2]),
                                     domain, id) # None
            THEN [error |-> None,
                  message |-> first_message(
                      CatalogueBag_get(catalogues, fallback[2]), domain, id),
                  via |-> "fallback",
                  formatted |-> Some(format(first_message(
                      CatalogueBag_get(catalogues, fallback[2]), domain, id)[2],
                      vals, cnt)),
                  lookups |-> <<locale, fallback[2]>>]
            ELSE IF msg # None
            THEN [error |-> None, message |-> msg, via |-> "locale",
                  formatted |-> Some(first), lookups |-> <<locale>>]
            ELSE [error |-> Some(MessageNotFound(locale, domain, id)),
                  message |-> None, via |-> "none", formatted |-> None,
                  lookups |-> <<locale>>]
        with_locale(locale, msg) ==
            with_first(locale, msg,
                       IF msg # None THEN format(msg[2], vals, cnt)
                       ELSE [result |-> NoResult])
    IN
    IF ~try_into(locale_like).ok
    THEN [error |-> Some(InvalidLocale(display(locale_like))), message |-> None,
          via |-> "none", formatted |-> None, lookups |-> <<>>]
    ELSE with_locale(try_into(locale_like).locale,
                     first_message(CatalogueBag_get(catalogues,
                                       try_into(locale_like).locale), domain, id))

Outcome_of(error, msg, via, formatted, lookups) ==
    [error |-> error, message |-> msg, via |-> via, formatted |-> formatted,
     lookups |-> lookups]

(* Translator::trans: what it returned with the locals that led to it.     *)
(* message is the template found (None if none was looked up or found),    *)
(* via tells whether the catalogues of the requested locale ("locale") or  *)
(* of the fallback locale ("fallback") gave it, formatted is what the      *)
(* formatter returned for it, error is the error trans made itself.  Both  *)
(* calls of the formatter are the one call at the end, on the locale whose *)
(* catalogues gave the message.  lookups are the locales handed to         *)
(* self.bag.get, in order.                                                 *)
trans(catalogues, fallback, locale_like, domain, id, vals, cnt) ==
    LET locale_string == display(locale_like)
        converted == try_into(locale_like)
    IN
    IF ~converted.ok
    THEN Outcome_of(Some(map_err(converted.error, locale_string)), None, "none",
                    None, <<>>)
    ELSE
    LET locale == converted.locale
        msg == first_message(CatalogueBag_get(catalogues, locale), domain, id)
        fallback_message ==
            IF msg = None /\ fallback # None
            THEN first_message(CatalogueBag_get(catalogues, fallback[2]),
                               domain, id)
            ELSE None
        lookups ==
            IF msg = None /\ fallback # None THEN <<locale, fallback[2]>>
            ELSE <<locale>>
        found ==
            IF msg # None
            THEN [via |-> "locale", locale |-> locale, message |-> msg]
            ELSE IF fallback_message # None
            THEN [via |-> "fallback", locale |-> fallback[2],
                  message |-> fallback_message]
            ELSE [via |-> "none", locale |-> locale, message |-> None]
    IN
    IF found.via # "none"
    THEN Outcome_of(None, found.message, found.via,
             Some(formatter_format(found.locale, found.message[2], vals, cnt)),
             lookups)
    ELSE Outcome_of(Some(not_found(locale, fallback, domain, id)), None, "none",
                    None, lookups)

(* The Result<String, Error> of a trans call.                              *)
returned_by(out) ==
    IF out.error # None THEN out.error[2] ELSE out.formatted[2].result

-----------------------------------------------------------------------------
(* The inputs of the model.                                                *)

MaxLen == 3
MaxTokens == 3
MaxPipes == 5
MaxRules == 2
MaxCount == 2

SeqsUpTo(S, n) == UNION {[1..k -> S] : k \in 0..n}

(* Every template of at most MaxLen chars over these chars.                *)
ScanChars == {<<"{">>, <<"}">>, <<"|">>, <<" ">>, <<"a">>, <<"?">>, <<"0">>,
              <<"C3", "A9">>}
ScanTemplates == {concat(cs) : cs \in SeqsUpTo(ScanChars, MaxLen)}

(* Every template of at most MaxTokens of these placeholders and escapes.  *)
Tokens == {<<"{", "}">>, <<"{", "a", "}">>, <<"{", "1", "}">>, <<"{", "?", "}">>,
           <<"{", " ", "b", "}">>, <<"{", "{">>, <<"}", "}">>, <<"x">>}
TokenTemplates == {concat(ts) : ts \in SeqsUpTo(Tokens, MaxTokens)}

(* Every template of at most MaxPipes chars over pipes and their           *)
(* neighbours.                                                             *)
PipeChars == {<<"|">>, <<"a">>, <<" ">>, <<"CC", "81">>}
PipeTemplates == {concat(cs) : cs \in SeqsUpTo(PipeChars, MaxPipes)}

NoValues == <<>>
V(name, text) == [name |-> name, text |-> text]
ValueLists ==
    { NoValues,
      <<V(<<"a">>, <<"1">>)>>,
      <<V(<<"a">>, <<"1">>), V(<<"b">>, <<"2">>)>>,
      <<V(<<"a">>, <<"1">>), V(<<"a">>, <<"|">>)>>,
      <<V(<<"1">>, <<"|", "|">>), V(<<"?">>, <<"q">>), V(<<>>, <<"e">>)>>,
      <<V(<<"a">>, <<"{", "}">>)>> }


(* Plural templates: at most MaxRules rule segments and a default, joined  *)
(* by one separator.                                                       *)
RuleSegments ==
    { <<"{", "0", "}", "a">>,
      <<"{", "0", ",", "1", "}", "b">>,
      <<"{", ".", ".", "0", "}", "c">>,
      <<"{", "1", ".", ".", "}", "d">>,
      <<"{", "0", ".", ".", "1", "}", "e">>,
      <<"{", "1", ",", " ", "2", "}", " ", "f", "|", "|", "g">>,
      <<"{", "x", "}", "h">>,
      <<"i">>,
      <<"{", "1", " ", "j">>,
      <<"{", "2", ".", ".", "}", "{", "?", "}">> }
Defaults ==
    { <<"d">>,
      <<"{", "0", "}", "d">>,
      <<"d", "|", "|", "{", "?", "}">> }
Separators ==
    { <<"|">>, <<" ", "|", " ">>, <<"|", "|", "|">> }

RECURSIVE join(_, _)
join(segs, sep) ==
    IF segs = <<>> THEN <<>> ELSE Head(segs) \o sep \o join(Tail(segs), sep)

PluralTemplates ==
    {join(segs, sep) \o d :
        segs \in SeqsUpTo(RuleSegments, MaxRules), sep \in Separators, d \in Defaults}

(* Plural templates whose default begins with a clause in braces: at most  *)
(* one rule segment before it.                                             *)
ClauseDefaults ==
    { <<"{", "0", "}", "d">>,
      <<"{", "}">>,
      <<"{", "1", ".", ".", "}", "d">> }
ClauseDefaultTemplates ==
    {join(segs, <<"|">>) \o d :
        segs \in SeqsUpTo(RuleSegments, 1), d \in ClauseDefaults}

(* Plural templates whose messages hold placeholders that cannot be        *)
(* resolved and braces that do not balance.                                *)
TargetSegments ==
    { <<"{", "0", "}", "{", "b", "}">>,
      <<"{", "1", "}", "}">>,
      <<"{", "1", ".", ".", "}", "{">>,
      <<"{", "0", "}", "a">> }
TargetTemplates ==
    {join(segs, <<"|">>) \o d :
        segs \in SeqsUpTo(TargetSegments, MaxRules), d \in {<<"d">>, <<"{", "b", "}">>}}

(* Templates with braces around nothing and around a space.                *)
BlankTemplates ==
    { <<"{", " ", "}">>,
      <<"{", " ", "}", "{", "}">>,
      <<"{", "}", "{", " ", "}", "{", "}">> }

(* The templates and contexts of the tests of src/src/formatter.rs.        *)
TestLong ==
    <<"a", " ", "=", " ", "{", "a", "}", ",", " ", "b", " ", "=", " ", "{",
      "1", "}", ",", " ", "a", " ", "=", " ", "{", "}", ",", " ", "b", " ",
      "=", " ", "{", "}", ",", " ", "c", " ", "=", " ", "{", "}", ",", " ",
      "c", " ", "=", " ", "{", "2", "}", ",", " ", "c", " ", "=", " ", "{",
      "c", "}", ",", " ", "c", "o", "u", "n", "t", " ", "=", " ", "{", "?",
      "}">>
TestEscape ==
    <<"a", " ", "=", " ", "{", "{", "{", "a", "}", "}", "}">>
TestRules ==
    <<"{", "0", "}", " ", "f", "o", "o", " ", "|", " ", "{", "1", ",", " ",
      "2", "}", " ", "b", "a", "r", " ", "|", " ", "{", ".", ".", "5", "}",
      " ", "b", "a", "z", " ", "|", " ", "{", "1", "0", ".", ".", "}", " ",
      "q", "u", "x", " ", "|", " ", "f", "i", "z", "z", " ", "|", "|", " ",
      "b", "i", "z", "z">>
TestUnterminated ==
    <<"f", "o", "o", " ", "{", "b", "a", "r">>
TestStray ==
    <<"}", "{">>
abc == <<V(<<"a">>, <<"1">>), V(<<"b">>, <<"2">>), V(<<"c">>, <<"3">>)>>

TestCalls ==
    { <<TestLong, abc, Some(5)>>,
      <<TestLong \o <<",", " ", "d", " ", "=", " ", "{", "d", "}">>, abc, Some(5)>>,
      <<TestLong \o <<",", " ", "d", " ", "=", " ", "{", "3", "}">>, abc, Some(5)>>,
      <<TestLong \o <<",", " ", "d", " ", "=", " ", "{", "}">>, abc, Some(5)>>,
      <<TestLong, abc, None>>,
      <<TestEscape, <<V(<<"a">>, <<"1">>)>>, None>>,
      <<<<"{", "{">>, NoValues, None>>,
      <<<<"}", "}">>, NoValues, None>>,
      <<TestUnterminated, NoValues, None>>,
      <<TestStray, NoValues, None>> }
    \cup {<<TestRules, NoValues, Some(c)>> : c \in {0, 1, 2, 3, 5, 6, 9, 10, 100}}

(* No translator and no catalogue at work.                                 *)
NoCall == [op |-> "none"]
TranslatorIdle ==
    /\ bag = <<>>
    /\ fallback_locale = None
    /\ call = NoCall
CatalogueIdle ==
    /\ cat = Catalogue_new(English_Default)
    /\ history = <<>>

Locals0 ==
    /\ pc = "format"
    /\ plural = None
    /\ raw = None
    /\ result = NoResult
    /\ TranslatorIdle
    /\ CatalogueIdle

(* A template without an opening brace has no placeholder to read a value  *)
(* for: it is formatted without values and with one.                       *)
InitScan ==
    /\ message \in ScanTemplates
    /\ values \in IF \E i \in 1..Len(message) : message[i] = "{"
                  THEN ValueLists
                  ELSE {NoValues, <<V(<<"a">>, <<"1">>)>>}
    /\ count \in {None, Some(MaxCount)}
    /\ Locals0

(* The sign of the count shows in a count placeholder only: the negative   *)
(* count goes with the templates that have one.                            *)
InitTokens ==
    /\ message \in TokenTemplates
    /\ values \in ValueLists
    /\ count \in IF \E i \in 1..Len(message) : message[i] = "?"
                 THEN {None, Some(-1), Some(MaxCount)}
                 ELSE {None, Some(MaxCount)}
    /\ Locals0

InitPipes ==
    /\ message \in PipeTemplates
    /\ values = NoValues
    /\ count \in {None, Some(MaxCount)}
    /\ Locals0

InitPlural ==
    /\ message \in PluralTemplates
    /\ values = NoValues
    /\ count \in {Some(c) : c \in -1..MaxCount}
    /\ Locals0

InitClauseDefaults ==
    /\ message \in ClauseDefaultTemplates
    /\ values = <<V(<<"a">>, <<"1">>)>>
    /\ count \in {Some(c) : c \in -1..MaxCount}
    /\ Locals0

InitTargets ==
    /\ message \in TargetTemplates
    /\ values = NoValues
    /\ count \in {Some(c) : c \in -1..MaxCount}
    /\ Locals0

(* Templates whose pipes meet the pipes of a value.                        *)
JunctionTemplates ==
    { <<"{", "1", "}", "|">>,
      <<"|", "|", "{", "1", "}">>,
      <<"{", "a", "}", "|">> }

InitJunctions ==
    /\ message \in JunctionTemplates
    /\ values \in ValueLists
    /\ count \in {None, Some(MaxCount)}
    /\ Locals0

(* Templates with spaces around a count placeholder.                       *)
PaddedTemplates ==
    { <<" ", "{", "?", "}", " ">>,
      <<" ", "{", "?", "}", "{", "1", "}">>,
      <<" ", "a", "{", " ", "?", "}", "{", "b", "}", " ">> }

InitPadded ==
    /\ message \in PaddedTemplates
    /\ values \in ValueLists
    /\ count \in {None, Some(-1), Some(MaxCount)}
    /\ Locals0

InitBlank ==
    /\ message \in BlankTemplates
    /\ values \in ValueLists
    /\ count \in {None, Some(MaxCount)}
    /\ Locals0

InitTests ==
    /\ \E test \in TestCalls :
          /\ message = test[1]
          /\ values = test[2]
          /\ count = test[3]
    /\ Locals0

(* Plural templates whose rule clauses are well and ill formed: at most    *)
(* MaxRules segments before the default d.                                 *)
Clauses ==
    { <<"0">>,
      <<"x">>,
      <<"1", ",", "x">>,
      <<" ", "1", " ", ",", " ", "2", " ">>,
      <<>>,
      <<".", ".">>,
      <<".", ".", "1">>,
      <<".", ".", "y">>,
      <<"0", ".", ".">>,
      <<"x", ".", ".">>,
      <<"0", ".", ".", "1">>,
      <<"w", ".", ".", "1">>,
      <<"0", ".", ".", "z">>,
      <<" ", "0", ".", ".", "1">>,
      <<"1", ".", ".", "2", ".", ".", "3">>,
      <<"-", "1">>,
      <<"+", "1">>,
      <<"1", ",", ",", "2">> }
ClauseSegments ==
    {<<"{">> \o c \o <<"}", "k">> : c \in Clauses}
    \cup {<<"k">>, <<"{", "0", " ", "k">>, <<"0", "}", "k">>, <<>>}
ClauseTemplates ==
    {join(segs, <<" ", "|", " ">>) \o <<"d">> :
        segs \in SeqsUpTo(ClauseSegments, MaxRules)}

(* The templates of test::plural_messages_parse_errors, each formatted     *)
(* with context!(? = 2).                                                   *)
TestParseErrors ==
    { <<"{", "0", "}", " ", "f", "o", "o", " ", "|", " ", "{", "1", " ", "b", "a", "r", " ", "|", " ", "b", "a", "z">>,
      <<"{", "0", "}", " ", "f", "o", "o", " ", "|", " ", "1", "}", " ", "b", "a", "r", " ", "|", " ", "b", "a", "z">>,
      <<"{", "0", "}", " ", "f", "o", "o", " ", "|", " ", "{", "o", "n", "e", "}", " ", "b", "a", "r", " ", "|", " ", "b", "a", "z">>,
      <<"{", "0", "}", " ", "f", "o", "o", " ", "|", " ", "{", "1", ",", " ", "t", "w", "o", " ", "b", "a", "r", " ", "|", " ", "b", "a", "z">>,
      <<"{", "0", "}", " ", "f", "o", "o", " ", "|", " ", "1", ",", " ", "t", "w", "o", "}", " ", "b", "a", "r", " ", "|", " ", "b", "a", "z">>,
      <<"{", "0", "}", " ", "f", "o", "o", " ", "|", " ", "{", "1", ",", " ", "t", "w", "o", "}", " ", "b", "a", "r", " ", "|", " ", "b", "a", "z">>,
      <<"{", "0", "}", " ", "f", "o", "o", " ", "|", " ", ".", ".", "t", "w", "o", "}", " ", "b", "a", "r", " ", "|", " ", "b", "a", "z">>,
      <<"{", "0", "}", " ", "f", "o", "o", " ", "|", " ", "{", ".", ".", "t", "w", "o", " ", "b", "a", "r", " ", "|", " ", "b", "a", "z">>,
      <<"{", "0", "}", " ", "f", "o", "o", " ", "|", " ", "{", ".", ".", "t", "w", "o", "}", " ", "b", "a", "r", " ", "|", " ", "b", "a", "z">>,
      <<"{", "0", "}", " ", "f", "o", "o", " ", "|", " ", "t", "w", "o", ".", ".", "}", " ", "b", "a", "r", " ", "|", " ", "b", "a", "z">>,
      <<"{", "0", "}", " ", "f", "o", "o", " ", "|", " ", "{", "t", "w", "o", ".", ".", " ", "b", "a", "r", " ", "|", " ", "b", "a", "z">>,
      <<"{", "0", "}", " ", "f", "o", "o", " ", "|", " ", "{", "t", "w", "o", ".", ".", "}", " ", "b", "a", "r", " ", "|", " ", "b", "a", "z">>,
      <<"{", "0", "}", " ", "f", "o", "o", " ", "|", " ", "{", "o", "n", "e", ".", ".", "5", "}", " ", "b", "a", "r", " ", "|", " ", "b", "a", "z">>,
      <<"{", "0", "}", " ", "f", "o", "o", " ", "|", " ", "2", ".", ".", "5", "}", " ", "b", "a", "r", " ", "|", " ", "b", "a", "z">>,
      <<"{", "0", "}", " ", "f", "o", "o", " ", "|", " ", "{", "2", ".", ".", "5", " ", "b", "a", "r", " ", "|", " ", "b", "a", "z">>,
      <<"{", "0", "}", " ", "f", "o", "o", " ", "|", " ", "{", "2", ".", ".", ".", ".", "5", "}", " ", "b", "a", "r", " ", "|", " ", "b", "a", "z">>,
      <<"{", "0", "}", " ", "f", "o", "o", " ", "|", " ", "{", "2", ".", "5", "}", " ", "b", "a", "r", " ", "|", " ", "b", "a", "z">>,
      <<>> }

InitClauses ==
    /\ \/ message \in ClauseTemplates /\ count \in {Some(0), Some(MaxCount)}
       \/ message \in TestParseErrors /\ count = Some(2)
    /\ values = NoValues
    /\ Locals0

(* The catalogues a bag is made of, and the arguments of trans.            *)
MaxCatalogues == 2
MaxOps == 3

Domains == {"messages", "other"}
Ids == {"greeting", "apple"}

Hello == <<"e", "n", " ", "{", "a", "}">>
Howdy == <<"h", "i", " ", "{", "a", "}">>
Bonjour == <<"f", "r", " ", "{", "a", "}">>
Allo == <<"c", "a", " ", "{", "a", "}">>
Apples == <<"{", "0", "}", " ", "n", "o", " ", "|", " ", "{", "?", "}">>
Broken == <<"{", "b">>

Map1(key, value) == map_insert(EmptyMap, key, value)
Map2(k1, v1, k2, v2) == map_insert(Map1(k1, v1), k2, v2)

Catalogues ==
    { Catalogue(English_Default,
          Map1("messages", Map2("greeting", Hello, "apple", Apples))),
      Catalogue(English_Default,
          Map2("messages", Map1("greeting", Howdy),
               "other", Map1("greeting", Broken))),
      Catalogue(French_Default,
          Map2("messages", Map1("greeting", Bonjour),
               "other", Map1("greeting", Bonjour))),
      Catalogue(French_Canada, Map1("messages", Map1("greeting", Allo))) }

FallbackArgs == {None, Some(English_Default), Some(French_Default)}

LocaleArgs ==
    { StrArg(<<"e", "n">>), StrArg(<<"f", "r">>),
      StrArg(<<"f", "r", "-", "C", "A">>), StrArg(<<"e", "n", "-", "Z", "Z">>),
      StrArg(<<"f", "o", "o">>), LocaleArg(French_Default) }

Contexts ==
    { [values |-> NoValues, count |-> None],
      [values |-> <<V(<<"a">>, <<"1">>)>>, count |-> Some(MaxCount)] }

FormatterIdle ==
    /\ message = <<>>
    /\ values = NoValues
    /\ count = None
    /\ pc = "idle"
    /\ plural = None
    /\ raw = None
    /\ result = NoResult

(* Translator::with_catalogue_bag(CatalogueBag::new())                     *)
InitTranslator ==
    /\ FormatterIdle
    /\ TranslatorIdle
    /\ CatalogueIdle

(* Catalogue::new(locale)                                                  *)
InitCatalogue ==
    /\ FormatterIdle
    /\ TranslatorIdle
    /\ cat \in {Catalogue_new(English_Default), Catalogue_new(French_Default)}
    /\ history = <<>>

(* DefaultFormatter::format, the whole call, for a locale of either        *)
(* language, default or regional.                                          *)
Format ==
    /\ pc = "format"
    /\ pc' = "done"
    /\ \E locale \in {English_Default, French_Canada} :
       \E returned \in {formatter_format(locale, message, values, count)} :
          /\ plural' = returned.plural
          /\ raw' = returned.raw
          /\ result' = returned.result
    /\ UNCHANGED <<message, values, count>>
    /\ UNCHANGED <<bag, fallback_locale, call, cat, history>>

Next == Format

(* A translator is at work (no formatter call of its own is under way)     *)
(* and the caller holds no unread result of trans.                         *)
TranslatorTurn == pc = "idle" /\ call.op # "trans"

(* CatalogueBag::insert on the translator's bag.                           *)
BagInsert ==
    /\ TranslatorTurn
    /\ Len(bag) < MaxCatalogues
    /\ \E catalogue \in Catalogues :
          bag' = CatalogueBag_insert(bag, catalogue)
    /\ call' = [op |-> "insert"]
    /\ UNCHANGED <<message, values, count, pc, plural, raw, result>>
    /\ UNCHANGED <<fallback_locale, cat, history>>

(* CatalogueBag::append: the catalogues of another bag are moved in.       *)
BagAppend ==
    /\ TranslatorTurn
    /\ \E other \in SeqsUpTo(Catalogues, MaxCatalogues) :
          /\ Len(bag) + Len(other) <= MaxCatalogues
          /\ bag' = CatalogueBag_append(bag, other)
    /\ call' = [op |-> "append"]
    /\ UNCHANGED <<message, values, count, pc, plural, raw, result>>
    /\ UNCHANGED <<fallback_locale, cat, history>>

(* Translator::set_fallback_locale                                         *)
SetFallbackLocale ==
    /\ TranslatorTurn
    /\ \E fallback \in FallbackArgs :
          /\ fallback_locale' = set_fallback_locale(fallback_locale, fallback)
          /\ call' = [op |-> "set_fallback_locale", fallback |-> fallback]
    /\ UNCHANGED <<message, values, count, pc, plural, raw, result>>
    /\ UNCHANGED <<bag, cat, history>>

(* Translator::trans: call holds the arguments and what trans returned     *)
(* until the caller has taken it.                                          *)
Trans ==
    /\ TranslatorTurn
    /\ \E locale_like \in LocaleArgs, domain \in Domains, id \in Ids,
          context \in Contexts :
          call' = [op |-> "trans", locale |-> locale_like, domain |-> domain,
                   id |-> id, context |-> context,
                   out |-> trans(bag, fallback_locale, locale_like, domain, id,
                                 context.values, context.count)]
    /\ UNCHANGED <<message, values, count, pc, plural, raw, result>>
    /\ UNCHANGED <<bag, fallback_locale, cat, history>>

(* The caller takes what trans returned.                                   *)
Return ==
    /\ call.op = "trans"
    /\ call' = NoCall
    /\ UNCHANGED <<message, values, count, pc, plural, raw, result>>
    /\ UNCHANGED <<bag, fallback_locale, cat, history>>

NextTranslator == BagInsert \/ BagAppend \/ SetFallbackLocale \/ Trans \/ Return

(* The calls on a Catalogue, each recorded with what it returned.          *)
Entry(op, domain, id, msg, ret) ==
    [op |-> op, domain |-> domain, id |-> id, message |-> msg, ret |-> ret]

CatalogueInsert ==
    /\ Len(history) < MaxOps
    /\ \E domain \in Domains, id \in Ids, msg \in {Hello, Bonjour} :
          LET r == Catalogue_insert(cat, domain, id, msg) IN
          /\ cat' = r.catalogue
          /\ history' = Append(history, Entry("insert", domain, id, msg, r.ret))
    /\ UNCHANGED <<message, values, count, pc, plural, raw, result>>
    /\ UNCHANGED <<bag, fallback_locale, call>>

CatalogueRemove ==
    /\ Len(history) < MaxOps
    /\ \E domain \in Domains, id \in Ids :
          LET r == Catalogue_remove(cat, domain, id) IN
          /\ cat' = r.catalogue
          /\ history' = Append(history, Entry("remove", domain, id, <<>>, r.ret))
    /\ UNCHANGED <<message, values, count, pc, plural, raw, result>>
    /\ UNCHANGED <<bag, fallback_locale, call>>

CatalogueRemoveAll ==
    /\ Len(history) < MaxOps
    /\ \E domain \in Domains :
          LET r == Catalogue_remove_all(cat, domain) IN
          /\ cat' = r.catalogue
          /\ history' = Append(history, Entry("remove_all", domain, "", <<>>, r.ret))
    /\ UNCHANGED <<message, values, count, pc, plural, raw, result>>
    /\ UNCHANGED <<bag, fallback_locale, call>>

CatalogueGet ==
    /\ Len(history) < MaxOps
    /\ \E domain \in Domains, id \in Ids :
          history' = Append(history,
              Entry("get", domain, id, <<>>, Catalogue_get(cat, domain, id)))
    /\ UNCHANGED <<message, values, count, pc, plural, raw, result>>
    /\ UNCHANGED <<bag, fallback_locale, call, cat>>

NextCatalogue ==
    CatalogueInsert \/ CatalogueRemove \/ CatalogueRemoveAll \/ CatalogueGet

Init == InitScan \/ InitTokens \/ InitBlank \/ InitJunctions \/ InitPadded \/ InitTests
InitPluralAll ==
    InitPipes \/ InitPlural \/ InitClauseDefaults \/ InitTargets \/ InitTests

Spec == Init /\ [][Next]_vars
SpecPlural == InitPluralAll /\ [][Next]_vars
SpecClauses == InitClauses /\ [][Next]_vars
SpecTranslator == InitTranslator /\ [][NextTranslator]_vars
SpecCatalogue == InitCatalogue /\ [][NextCatalogue]_vars
SpecLocale == (InitTokens \/ InitTests \/ InitTranslator) /\ [][Format \/ NextTranslator]_vars

-----------------------------------------------------------------------------
(* The reading of a template that the claims are stated against: the text  *)
(* as a sequence of tokens, read char by char from the left.               *)
(*   lit    one byte of literal text                                       *)
(*   esc    an escape, {{ or }}; text is the brace it stands for           *)
(*   ph     a placeholder; text is the content between its braces          *)
(*   stray  a } that is not followed by }; text is the char after it       *)
(*   open   a { with no } after it                                         *)
(* Nothing is read after a stray or open token.                            *)

Done == pc = "done"

Tok(k, text) == [k |-> k, text |-> text]

FirstChar(s) ==
    IF s = <<>> THEN <<>>
    ELSE IF Head(s) \in LeadBytes /\ Len(s) >= 2 THEN SubSeq(s, 1, 2)
    ELSE <<Head(s)>>

Occurs(b, s) == \E i \in 1..Len(s) : s[i] = b
NumOf(b, s) == Cardinality({i \in 1..Len(s) : s[i] = b})
FirstAt(b, s) == CHOOSE i \in 1..Len(s) : s[i] = b /\ \A j \in 1..(i - 1) : s[j] # b

RECURSIVE Lex(_)
Lex(s) ==
    IF s = <<>> THEN <<>>
    ELSE IF Head(s) = "}"
    THEN IF Len(s) >= 2 /\ s[2] = "}"
         THEN <<Tok("esc", <<"}">>)>> \o Lex(SubSeq(s, 3, Len(s)))
         ELSE <<Tok("stray", FirstChar(Tail(s)))>>
    ELSE IF Head(s) = "{"
    THEN IF Len(s) >= 2 /\ s[2] = "{"
         THEN <<Tok("esc", <<"{">>)>> \o Lex(SubSeq(s, 3, Len(s)))
         ELSE IF ~Occurs("}", s)
         THEN <<Tok("open", <<>>)>>
         ELSE <<Tok("ph", SubSeq(s, 2, FirstAt("}", s) - 1))>>
              \o Lex(SubSeq(s, FirstAt("}", s) + 1, Len(s)))
    ELSE LET braces == {i \in 1..Len(s) : s[i] \in {"{", "}"}}
             run(n) ==
                 [i \in 1..n |-> Tok("lit", <<s[i]>>)] \o Lex(SubSeq(s, n + 1, Len(s)))
         IN IF braces = {} THEN run(Len(s))
            ELSE run((CHOOSE i \in braces : \A j \in braces : i <= j) - 1)

(* The kinds of placeholder, by content.                                   *)
IsUnsignedText(t) ==
    /\ t # <<>>
    /\ \/ \A i \in 1..Len(t) : t[i] \in DigitSet
       \/ Len(t) > 1 /\ t[1] = "+" /\ \A i \in 2..Len(t) : t[i] \in DigitSet
UnsignedOf(t) == digits_value(IF t[1] = "+" THEN Tail(t) ELSE t, 0)
HasName(vals, name) == \E i \in 1..Len(vals) : vals[i].name = name
FirstNamed(vals, name) ==
    CHOOSE i \in 1..Len(vals) :
        vals[i].name = name /\ \A j \in 1..(i - 1) : vals[j].name # name

IsIndexedTok(tok) == tok.k = "ph" /\ tok.text = <<>>
IsPositionalTok(tok) ==
    tok.k = "ph" /\ tok.text # <<>> /\ IsUnsignedText(trim(tok.text))
IsNamedTok(tok, vals) ==
    /\ tok.k = "ph" /\ tok.text # <<>>
    /\ ~IsUnsignedText(trim(tok.text))
    /\ HasName(vals, trim(tok.text))
IsCountTok(tok, vals) ==
    /\ tok.k = "ph" /\ trim(tok.text) = <<"?">>
    /\ ~HasName(vals, <<"?">>)
IsUnknownTok(tok, vals) ==
    /\ tok.k = "ph" /\ tok.text # <<>>
    /\ ~IsUnsignedText(trim(tok.text))
    /\ ~HasName(vals, trim(tok.text))
    /\ trim(tok.text) # <<"?">>

(* The number of {} before token i: the index that a {} at i consumes.     *)
IndexedBefore(toks, i) ==
    Cardinality({j \in 1..(i - 1) : IsIndexedTok(toks[j])})

(* What token i contributes: its text, or the error it raises.             *)
Outcome(toks, i, vals, cnt) ==
    LET tok == toks[i]
        name == trim(tok.text)
    IN
    CASE tok.k \in {"lit", "esc"} -> Ok(tok.text)
      [] tok.k = "stray" ->
            IF tok.text = <<>> THEN ErrTerminated ELSE ErrExpectedFound(tok.text)
      [] tok.k = "open" -> ErrTerminated
      [] IsIndexedTok(tok) ->
            IF IndexedBefore(toks, i) < Len(vals)
            THEN Ok(vals[IndexedBefore(toks, i) + 1].text)
            ELSE ErrIndexed(IndexedBefore(toks, i), Len(vals))
      [] IsPositionalTok(tok) ->
            IF UnsignedOf(name) < Len(vals)
            THEN Ok(vals[UnsignedOf(name) + 1].text)
            ELSE ErrPositional(UnsignedOf(name), Len(vals))
      [] IsNamedTok(tok, vals) -> Ok(vals[FirstNamed(vals, name)].text)
      [] IsCountTok(tok, vals) ->
            IF cnt # None THEN Ok(to_string(cnt[2])) ELSE ErrCount
      [] OTHER -> ErrCannotFind(name)

Fails(toks, i, vals, cnt) == Outcome(toks, i, vals, cnt).kind # "Ok"

(* Token i is reached: no token before it raises an error.                 *)
Reached(toks, i, vals, cnt) ==
    \A j \in 1..(i - 1) : ~Fails(toks, j, vals, cnt)

NoneFails(toks, vals, cnt) ==
    \A i \in 1..Len(toks) : ~Fails(toks, i, vals, cnt)

(* The substituted text when no token fails.                               *)
Substituted(toks, vals, cnt) ==
    concat([i \in 1..Len(toks) |-> Outcome(toks, i, vals, cnt).text])

(* String::replace("||", "|") seen run by run: a maximal run of n pipes    *)
(* keeps (n + 1) \div 2 of them.                                           *)
LeadingPipes(s) ==
    CHOOSE n \in 0..Len(s) :
        /\ \A i \in 1..n : s[i] = "|"
        /\ n = Len(s) \/ s[n + 1] # "|"

RECURSIVE CollapseRuns(_)
CollapseRuns(s) ==
    IF ~Occurs("|", s) THEN s
    ELSE IF Head(s) # "|"
    THEN SubSeq(s, 1, FirstAt("|", s) - 1)
         \o CollapseRuns(SubSeq(s, FirstAt("|", s), Len(s)))
    ELSE [i \in 1..((LeadingPipes(s) + 1) \div 2) |-> "|"]
         \o CollapseRuns(SubSeq(s, LeadingPipes(s) + 1, Len(s)))

(* The output when no token fails.                                         *)
Rendered(toks, vals, cnt) ==
    IF cnt # None THEN CollapseRuns(Substituted(toks, vals, cnt))
    ELSE Substituted(toks, vals, cnt)

NoBraceValues(vals) ==
    \A i \in 1..Len(vals) : ~Occurs("{", vals[i].text) /\ ~Occurs("}", vals[i].text)

-----------------------------------------------------------------------------
(* C1: with a count c, a template that parses as plural messages renders   *)
(* exactly one segment: the message of the first rule, in declaration      *)
(* order, whose predicate holds for c (RangeTo: c <= to; RangeFrom:        *)
(* c >= from; Range: from <= c <= to; Match: c is a listed value), and the *)
(* default when no rule holds.                                             *)
RuleHolds(rule, c) ==
    CASE rule.type = "RangeTo" -> c <= rule.to
      [] rule.type = "RangeFrom" -> rule.from <= c
      [] rule.type = "Range" -> c \in rule.from..rule.to
      [] rule.type = "Match" -> c \in {rule.values[i] : i \in 1..Len(rule.values)}

FirstHolding(rules, c) ==
    IF \E i \in 1..Len(rules) : RuleHolds(rules[i].rule, c)
    THEN CHOOSE i \in 1..Len(rules) :
            /\ RuleHolds(rules[i].rule, c)
            /\ \A j \in 1..(i - 1) : ~RuleHolds(rules[j].rule, c)
    ELSE 0

SelectedSegment(pm, c) ==
    IF FirstHolding(pm.rules, c) = 0 THEN pm.default
    ELSE pm.rules[FirstHolding(pm.rules, c)].message

C1_FirstMatchingRule ==
    (Done /\ count # None /\ plural # None /\ plural[2].kind = "Ok")
    => /\ raw = Some(SelectedSegment(plural[2], count[2]))
       /\ LET toks == Lex(SelectedSegment(plural[2], count[2])) IN
          NoneFails(toks, values, count)
          => result = Ok(Rendered(toks, values, count))

(* Two overlapping rules hold for the count and the first one is rendered. *)
C1_Witness ==
    /\ Done /\ count # None /\ plural # None /\ plural[2].kind = "Ok"
    /\ Len(plural[2].rules) >= 2
    /\ RuleHolds(plural[2].rules[1].rule, count[2])
    /\ RuleHolds(plural[2].rules[2].rule, count[2])
    /\ plural[2].rules[1].rule.type = "Range"
    /\ count[2] = plural[2].rules[1].rule.to
    /\ plural[2].rules[1].message # plural[2].rules[2].message
    /\ result = Ok(plural[2].rules[1].message)

(* C2: without a count there is no plural resolution: the unmodified       *)
(* template is what is substituted, so pipes and outer whitespace reach    *)
(* the output unchanged and a leading {...} is a placeholder.              *)
C2_NoCountNoPlural ==
    (Done /\ count = None)
    => /\ plural = None
       /\ raw = Some(message)
       /\ (~Occurs("{", message) /\ ~Occurs("}", message)) => result = Ok(message)
       /\ LET toks == Lex(message) IN
          IF NoneFails(toks, values, None)
          THEN result = Ok(Substituted(toks, values, None))
          ELSE result.kind = "FormattingError"

(* A template with outer whitespace and a pipe comes out as it went in.    *)
C2_Witness ==
    /\ Done /\ count = None
    /\ Len(message) >= 3
    /\ message[1] = " " /\ message[Len(message)] = " "
    /\ Occurs("|", message)
    /\ result = Ok(message)

(* C3: each {{ emits exactly one { and each }} exactly one }, and neither  *)
(* opens or closes a placeholder.                                          *)
NumEsc(toks, b) ==
    Cardinality({i \in 1..Len(toks) : toks[i] = Tok("esc", <<b>>)})

C3_EscapedBraces ==
    /\ (Done /\ raw # None /\ result.kind = "Ok" /\ NoBraceValues(values))
       => /\ NumOf("{", result.text) = NumEsc(Lex(raw[2]), "{")
          /\ NumOf("}", result.text) = NumEsc(Lex(raw[2]), "}")
    /\ (Done /\ count = None
        /\ \A i \in 1..Len(Lex(message)) : Lex(message)[i].k \in {"lit", "esc"})
       => result = Ok(concat([i \in 1..Len(Lex(message)) |-> Lex(message)[i].text]))
    /\ (Done /\ message = TestEscape /\ values = <<V(<<"a">>, <<"1">>)>>
        /\ count = None)
       => result = Ok(<<"a", " ", "=", " ", "{", "1", "}">>)
    /\ (Done /\ message = <<"{", "{">> /\ count = None) => result = Ok(<<"{">>)
    /\ (Done /\ message = <<"}", "}">> /\ count = None) => result = Ok(<<"}">>)

(* The test's template a = {{{a}}} renders a = {1}.                        *)
C3_Witness ==
    /\ Done /\ message = TestEscape /\ count = None
    /\ result = Ok(<<"a", " ", "=", " ", "{", "1", "}">>)

(* C4: the k-th {} of the scanned text, k = 0, 1, ..., renders the k-th    *)
(* context value; no other placeholder advances k; with k or fewer values  *)
(* the call fails with: invalid reference to indexed value 'k' (there is n *)
(* value).                                                                 *)
C4_IndexedInOrder ==
    (Done /\ raw # None)
    => LET toks == Lex(raw[2]) IN
       \A i \in 1..Len(toks) :
          (IsIndexedTok(toks[i]) /\ Reached(toks, i, values, count))
          => LET k == IndexedBefore(toks, i) IN
             IF k < Len(values)
             THEN /\ Outcome(toks, i, values, count) = Ok(values[k + 1].text)
                  /\ NoneFails(toks, values, count)
                     => result = Ok(Rendered(toks, values, count))
             ELSE result = FormattingError(
                     <<"invalid reference to indexed value '">> \o to_string(k)
                     \o <<"' (there is ">> \o to_string(Len(values))
                     \o <<" value).">>)

(* A {} after another placeholder after a {} renders the second value.     *)
C4_Witness ==
    /\ Done /\ raw # None /\ result.kind = "Ok"
    /\ Len(values) >= 2 /\ values[1].text # values[2].text
    /\ LET toks == Lex(raw[2]) IN
       /\ Len(toks) = 3
       /\ IsIndexedTok(toks[1])
       /\ toks[2].k = "ph" /\ ~IsIndexedTok(toks[2])
       /\ IsIndexedTok(toks[3])
       /\ result.text = values[1].text \o Outcome(toks, 2, values, count).text
                        \o values[2].text

(* C5: a placeholder whose trimmed content is an unsigned integer N        *)
(* renders the context value at 0-based position N, and with N values or   *)
(* fewer the call fails with: invalid reference to positional value 'N'    *)
(* (there is n value).                                                     *)
C5_Positional ==
    /\ (Done /\ raw # None)
       => LET toks == Lex(raw[2]) IN
          \A i \in 1..Len(toks) :
             (IsPositionalTok(toks[i]) /\ Reached(toks, i, values, count))
             => LET N == UnsignedOf(trim(toks[i].text)) IN
                IF N >= Len(values)
                THEN result = FormattingError(
                        <<"invalid reference to positional value '">>
                        \o to_string(N) \o <<"' (there is ">>
                        \o to_string(Len(values)) \o <<" value).">>)
                ELSE /\ Outcome(toks, i, values, count) = Ok(values[N + 1].text)
                     /\ NoneFails(toks, values, count)
                        => result = Ok(Rendered(toks, values, count))
    /\ (Done /\ message = TestLong \o <<",", " ", "d", " ", "=", " ", "{", "3", "}">> /\ values = abc)
       => result = FormattingError(
             <<"invalid reference to positional value '", "3", "' (there is ",
               "3", " value).">>)

(* {3} with three values fails, citing 3 and 3.                            *)
C5_Witness ==
    /\ Done /\ message = TestLong \o <<",", " ", "d", " ", "=", " ", "{", "3", "}">> /\ values = abc
    /\ result.kind = "FormattingError"

(* C6: a placeholder whose trimmed content is not empty, is no unsigned    *)
(* integer, names no context value and is not ? fails the call with:       *)
(* cannot find value '<trimmed content>' in this context.                  *)
C6_UnknownName ==
    (Done /\ raw # None)
    => LET toks == Lex(raw[2]) IN
       \A i \in 1..Len(toks) :
          (/\ IsUnknownTok(toks[i], values)
           /\ trim(toks[i].text) # <<>>
           /\ Reached(toks, i, values, count))
          => result = FormattingError(
                <<"cannot find value '">> \o trim(toks[i].text)
                \o <<"' in this context.">>)

(* An unknown name written with a space is cited without the space.        *)
C6_Witness ==
    /\ Done /\ raw # None
    /\ LET toks == Lex(raw[2]) IN
       /\ Len(toks) = 2
       /\ ~Fails(toks, 1, values, count)
       /\ toks[2] = Tok("ph", <<" ", "b">>)
    /\ result = FormattingError(<<"cannot find value '", "b", "' in this context.">>)

(* C7: {?} renders the count in plain decimal when there is one, and       *)
(* without a count (no value being named ?) fails the call with: invalid   *)
(* reference to count ( {?} ) value.                                       *)
RECURSIVE IsPlainDecimal(_, _)
IsPlainDecimal(t, c) ==
    IF c < 0
    THEN Len(t) >= 2 /\ t[1] = "-" /\ IsPlainDecimal(Tail(t), -c)
    ELSE /\ t # <<>>
         /\ \A i \in 1..Len(t) : t[i] \in DigitSet
         /\ Len(t) = 1 \/ t[1] # "0"
         /\ digits_value(t, 0) = c

C7_CountPlaceholder ==
    (Done /\ raw # None)
    => LET toks == Lex(raw[2]) IN
       \A i \in 1..Len(toks) :
          (IsCountTok(toks[i], values) /\ Reached(toks, i, values, count))
          => IF count = None
             THEN result = FormattingError(
                     <<"invalid reference to count ( {?} ) value.">>)
             ELSE /\ NoneFails(toks, values, count)
                     => result = Ok(Rendered(toks, values, count))
                  /\ Len(toks) = 1
                     => result.kind = "Ok" /\ IsPlainDecimal(result.text, count[2])

(* {?} alone, with the count -1, renders -1.                               *)
C7_Witness ==
    /\ Done /\ count = Some(-1) /\ raw = Some(<<"{", "?", "}">>)
    /\ result = Ok(<<"-", "1">>)

(* C8: unbalanced braces are always rejected; a } that is followed by a    *)
(* char other than } fails with: expected '}', found '<that char>'; the    *)
(* error "expected '}' but string was terminated" is produced only when    *)
(* the input ends: such a } is the last char, or a { that opens a          *)
(* placeholder has no later }.                                             *)
C8_UnbalancedBraces ==
    (Done /\ raw # None)
    => LET toks == Lex(raw[2])
           n == Len(toks)
       IN
       /\ (n > 0 /\ toks[n].k \in {"stray", "open"} /\ Reached(toks, n, values, count))
          => result.kind = "FormattingError"
       /\ (n > 0 /\ toks[n].k = "stray" /\ toks[n].text # <<>>
           /\ Reached(toks, n, values, count))
          => result = FormattingError(
                <<"invalid format string: expected '}', found '">>
                \o toks[n].text \o <<"'.">>)
       /\ result = FormattingError(
             <<"invalid format string: expected '}' but string was terminated.">>)
          => /\ n > 0
             /\ \/ toks[n].k = "open"
                \/ toks[n].k = "stray" /\ toks[n].text = <<>>

(* C9: with a count, the trimmed template is split at exactly those pipes  *)
(* that are followed by a grapheme other than a pipe and stand at an odd   *)
(* position in their run of consecutive pipes; every other pipe stays in   *)
(* the text of its segment; each segment is trimmed.                       *)
RunPosition(g, i) ==
    CHOOSE k \in 1..i :
        /\ \A j \in (i - k + 1)..i : g[j] = <<"|">>
        /\ k = i \/ g[i - k] # <<"|">>

IsSeparator(g, i) ==
    /\ g[i] = <<"|">>
    /\ i < Len(g) /\ g[i + 1] # <<"|">>
    /\ RunPosition(g, i) % 2 = 1

SeparatorsOf(g) == {i \in 1..Len(g) : IsSeparator(g, i)}

NthOf(S, n) == CHOOSE x \in S : Cardinality({y \in S : y < x}) = n - 1

SegmentsOf(g) ==
    LET between(seps, k) ==
            [n \in 1..(k + 1) |->
                trim(concat(SubSeq(g,
                     IF n = 1 THEN 1 ELSE NthOf(seps, n - 1) + 1,
                     IF n = k + 1 THEN Len(g) ELSE NthOf(seps, n) - 1)))]
        of(seps) == between(seps, Cardinality(seps))
    IN of(SeparatorsOf(g))

C9_SplitAtOddPipes ==
    (Done /\ count # None /\ trim(message) # <<>>)
    => \E expected \in {SegmentsOf(graphemes_of(trim(message)))} :
       /\ split_messages(message) = expected
       /\ plural[2].default = expected[Len(expected)]
       /\ plural[2].kind = "Ok"
          => /\ Len(plural[2].rules) = Len(expected) - 1
             /\ \A n \in 1..Len(plural[2].rules) :
                   \E j \in 1..Len(expected[n]) :
                      /\ expected[n][j] = "}"
                      /\ plural[2].rules[n].message
                            = trim(SubSeq(expected[n], j + 1, Len(expected[n])))

(* A run of three pipes separates at its third pipe and leaves || in the   *)
(* segment before it.                                                      *)
C9_Witness ==
    /\ Done /\ count = Some(0)
    /\ plural # None /\ plural[2].kind = "Ok"
    /\ Len(plural[2].rules) = 1
    /\ plural[2].rules[1].message = <<"a", "|", "|">>
    /\ result = Ok(<<"a", "|">>)

(* C10: with a count, every || left in the substituted output becomes one  *)
(* pipe, non-overlapping and from the left, whichever segment was selected *)
(* and whether or not the template had a separator; without a count the    *)
(* output keeps its pipes.                                                 *)
C10_CollapseWithCount ==
    /\ (Done /\ raw # None /\ NoneFails(Lex(raw[2]), values, count))
       => LET sub == Substituted(Lex(raw[2]), values, count) IN
          /\ count # None => result = Ok(CollapseRuns(sub))
          /\ count = None => result = Ok(sub)
    /\ (Done /\ message = TestRules /\ count \in {Some(6), Some(9)})
       => result = Ok(<<"f", "i", "z", "z", " ", "|", " ", "b", "i", "z", "z">>)

(* A template without separator has its || collapsed under a count.        *)
C10_Witness ==
    /\ Done /\ count # None /\ raw # None
    /\ plural[2].rules = <<>>
    /\ \E i \in 1..(Len(raw[2]) - 3) :
          /\ raw[2][i] # "|"
          /\ raw[2][i + 1] = "|" /\ raw[2][i + 2] = "|"
          /\ raw[2][i + 3] # "|"
    /\ result.kind = "Ok"
    /\ NumOf("|", result.text) = 1

(* C11: with a count, the first non-final segment that does not start with *)
(* {, has no }, or has a rule clause with a token that is no i64 makes     *)
(* format fail with a FormattingError that quotes the trimmed segment and  *)
(* names the failing part: the missing {, the missing }, the 'from' or     *)
(* 'to' bound with the kind of range, or the offending match token; with   *)
(* no such segment the rules parse.                                        *)
IsI64Text(t) ==
    LET body == IF t # <<>> /\ t[1] \in {"+", "-"} THEN Tail(t) ELSE t IN
    body # <<>> /\ \A i \in 1..Len(body) : body[i] \in DigitSet

ClauseOf(seg) == SubSeq(seg, 2, FirstAt("}", seg) - 1)

DotsAt(c) ==
    IF \E p \in 1..(Len(c) - 1) : c[p] = "." /\ c[p + 1] = "."
    THEN CHOOSE p \in 1..(Len(c) - 1) :
            /\ c[p] = "." /\ c[p + 1] = "."
            /\ \A q \in 1..(p - 1) : ~(c[q] = "." /\ c[q + 1] = ".")
    ELSE 0

Part(part, kind, token) == [part |-> part, kind |-> kind, token |-> token]

FailingPart(seg) ==
    IF seg = <<>> \/ seg[1] # "{" THEN Part("{", "", <<>>)
    ELSE IF ~Occurs("}", seg) THEN Part("}", "", <<>>)
    ELSE
    LET c == ClauseOf(seg)
        p == DotsAt(c)
        from == SubSeq(c, 1, p - 1)
        to == SubSeq(c, p + 2, Len(c))
        tokens == split_comma(c, <<>>)
        bad == {i \in 1..Len(tokens) : ~IsI64Text(trim(tokens[i]))}
    IN
    IF p = 0
    THEN IF bad = {} THEN Part("none", "", <<>>)
         ELSE Part("value", "match",
                   trim(tokens[CHOOSE i \in bad : \A j \in bad : i <= j]))
    ELSE IF p = 1
    THEN IF IsI64Text(to) THEN Part("none", "", <<>>) ELSE Part("to", "range-to", <<>>)
    ELSE IF p = Len(c) - 1
    THEN IF IsI64Text(from) THEN Part("none", "", <<>>)
         ELSE Part("from", "range-from", <<>>)
    ELSE IF ~IsI64Text(from) THEN Part("from", "range", <<>>)
    ELSE IF ~IsI64Text(to) THEN Part("to", "range", <<>>)
    ELSE Part("none", "", <<>>)

DetailStart(seg) ==
    LET f == FailingPart(seg) IN
    IF f.part \in {"{", "}"}
    THEN <<"formatting: failed to parse rule for '">> \o seg
         \o <<"', expected '" \o f.part \o "' but string was terminated.">>
    ELSE IF f.part = "value"
    THEN <<"formatting: failed to parse value '">> \o f.token
         \o <<"' in match rule for '">> \o seg \o <<"', ">>
    ELSE <<"formatting: failed to parse '", f.part, "' value in ", f.kind,
           " rule for '">> \o seg \o <<"', ">>

IsPrefix(p, s) == Len(p) <= Len(s) /\ SubSeq(s, 1, Len(p)) = p

FirstFailing(segs) ==
    LET bad == {n \in 1..(Len(segs) - 1) : FailingPart(segs[n]).part # "none"} IN
    IF bad = {} THEN 0 ELSE CHOOSE n \in bad : \A k \in bad : n <= k

C11_RuleErrors ==
    (Done /\ count # None /\ trim(message) # <<>>)
    => LET segs == SegmentsOf(graphemes_of(trim(message)))
           b == FirstFailing(segs)
       IN
       /\ b = 0 => plural[2].kind = "Ok"
       /\ b # 0
          => /\ raw = None
             /\ result.kind = "FormattingError"
             /\ IsPrefix(DetailStart(segs[b]), result.text)
             /\ FailingPart(segs[b]).part \in {"{", "}"}
                => result.text = DetailStart(segs[b])

(* A bad 'to' bound of a range in the second segment, after a good rule.   *)
C11_Witness ==
    /\ Done /\ count = Some(0)
    /\ message = <<"{", "0", "}", "k", " ", "|", " ", "{", "0", ".", ".", "z", "}", "k", " ", "|", " ", "d">>
    /\ result = FormattingError(
          <<"formatting: failed to parse '", "to", "' value in ", "range",
            " rule for '">> \o <<"{", "0", ".", ".", "z", "}", "k">>
          \o <<"', ", "invalid digit found in string", ".">>)

(* C12: with a count, format fails with "expected at least a default       *)
(* message" exactly when the template is blank; every other template has a *)
(* non-empty default segment, and a template without a pipe is the sole    *)
(* default, trimmed, with no rule.                                         *)
IsBlank(s) == \A i \in 1..Len(s) : s[i] \in Whitespace

C12_DefaultMessage ==
    (Done /\ count # None)
    => /\ IsBlank(message)
          <=> result = FormattingError(
                 <<"formatting: failed to parse plural messages, expected at least a default message but string was terminated.">>)
       /\ ~IsBlank(message)
          => /\ plural[2].default # <<>>
             /\ ~IsBlank(plural[2].default)
       /\ (~IsBlank(message) /\ ~Occurs("|", message))
          => /\ plural[2].kind = "Ok"
             /\ plural[2].rules = <<>>
             /\ plural[2].default = trim(message)
             /\ raw = Some(trim(message))

(* A template of blanks only is rejected for want of a default.            *)
C12_Witness ==
    /\ Done /\ count # None
    /\ message # <<>> /\ IsBlank(message)
    /\ plural[2].kind = "FormattingError"
    /\ result.kind = "FormattingError"

(* C13: a trans for a key that no catalogue of the requested locale        *)
(* defines and a catalogue of locale F defines is answered from F's        *)
(* template exactly when the fallback locale is F, and fails with          *)
(* MessageNotFound when there is no fallback; the fallback locale is the   *)
(* argument of the most recent set_fallback_locale call, None included,    *)
(* and nothing else changes it.                                            *)
Defines(catalogues, locale, domain, id) ==
    \E i \in 1..Len(catalogues) :
        /\ catalogues[i].locale = locale
        /\ HasKey(catalogues[i].messages, domain)
        /\ HasKey(catalogues[i].messages[domain], id)

TemplatesOf(catalogues, locale, domain, id) ==
    {catalogues[i].messages[domain][id] :
        i \in {j \in 1..Len(catalogues) :
                  /\ catalogues[j].locale = locale
                  /\ HasKey(catalogues[j].messages, domain)
                  /\ HasKey(catalogues[j].messages[domain], id)}}

Requested(c) == try_into(c.locale).locale

MissesLocale ==
    /\ call.op = "trans"
    /\ try_into(call.locale).ok
    /\ ~Defines(bag, Requested(call), call.domain, call.id)

C13_State ==
    /\ call.op = "set_fallback_locale" => fallback_locale = call.fallback
    /\ MissesLocale
       => /\ \A F \in Locales :
                Defines(bag, F, call.domain, call.id)
                => (fallback_locale = Some(F)
                    <=> /\ call.out.via = "fallback"
                        /\ call.out.message # None
                        /\ call.out.message[2]
                              \in TemplatesOf(bag, F, call.domain, call.id)
                        /\ returned_by(call.out)
                              = format(call.out.message[2], call.context.values,
                                       call.context.count).result)
          /\ fallback_locale = None
             => returned_by(call.out)
                   = MessageNotFound(Requested(call), call.domain, call.id)

C13_Step ==
    fallback_locale' # fallback_locale => call'.op = "set_fallback_locale"

C13_Fallback == [](C13_State) /\ [][C13_Step]_vars

(* French asked, no French catalogue with the key, English the fallback.   *)
C13_Witness ==
    /\ call.op = "trans"
    /\ call.locale = StrArg(<<"f", "r">>)
    /\ fallback_locale = Some(English_Default)
    /\ ~Defines(bag, French_Default, call.domain, call.id)
    /\ call.out.via = "fallback"
    /\ returned_by(call.out) = Ok(<<"e", "n", " ", "1">>)

(* C14: when neither the catalogues of the requested locale nor those of   *)
(* the fallback locale (if there is one) define (domain, id), trans fails  *)
(* with MessageNotFound carrying the requested locale, the domain and the  *)
(* id.                                                                     *)
DefinedNowhere ==
    /\ call.op = "trans"
    /\ try_into(call.locale).ok
    /\ ~Defines(bag, Requested(call), call.domain, call.id)
    /\ fallback_locale # None
       => ~Defines(bag, fallback_locale[2], call.domain, call.id)

C14_NotFound ==
    DefinedNowhere
    => /\ returned_by(call.out).kind = "MessageNotFound"
       /\ returned_by(call.out).text[2] = call.domain
       /\ returned_by(call.out).text[3] = call.id
       /\ call.locale = StrArg(<<"f", "r", "-", "C", "A">>)
          => returned_by(call.out).text[1] = French_Canada
       /\ call.locale \in {StrArg(<<"f", "r">>), LocaleArg(French_Default)}
          => returned_by(call.out).text[1] = French_Default
       /\ call.locale = StrArg(<<"e", "n">>)
          => returned_by(call.out).text[1] = English_Default

(* A fallback locale is set and its catalogues do not have the key either. *)
C14_Witness ==
    /\ DefinedNowhere
    /\ bag # <<>>
    /\ fallback_locale = Some(English_Default)
    /\ call.locale = StrArg(<<"f", "r", "-", "C", "A">>)
    /\ returned_by(call.out) = MessageNotFound(French_Canada, "other", "apple")

(* C15: trans with a locale input that is the code of no locale fails with *)
(* InvalidLocale carrying the input text as it was given, and looks up and *)
(* formats nothing, whatever the bag, the fallback locale, the domain, the *)
(* id and the context are.                                                 *)
KnownCodes ==
    { <<"e", "n">>, <<"e", "n", "_", "U", "S">>, <<"e", "n", "-", "U", "S">>,
      <<"f", "r">>, <<"f", "r", "_", "C", "A">>, <<"f", "r", "-", "C", "A">> }

UnknownLocale ==
    /\ call.op = "trans"
    /\ call.locale.type = "str"
    /\ call.locale.text \notin KnownCodes

C15_InvalidLocale ==
    UnknownLocale
    => /\ returned_by(call.out) = InvalidLocale(call.locale.text)
       /\ call.out.message = None
       /\ call.out.formatted = None

(* An unknown code with a dash, on a translator that has the key in the    *)
(* fallback locale.                                                        *)
C15_Witness ==
    /\ UnknownLocale
    /\ call.locale.text = <<"e", "n", "-", "Z", "Z">>
    /\ fallback_locale = Some(English_Default)
    /\ Defines(bag, English_Default, call.domain, call.id)
    /\ returned_by(call.out).kind = "InvalidLocale"

(* C16: among the catalogues of the requested locale, trans takes the      *)
(* template of the first one in the order of the bag that defines          *)
(* (domain, id); insert and append put catalogues behind the ones the bag  *)
(* holds, and nothing else changes the bag.                                *)
FirstDefining(catalogues, locale, domain, id) ==
    CHOOSE i \in 1..Len(catalogues) :
        /\ Defines(<<catalogues[i]>>, locale, domain, id)
        /\ \A j \in 1..(i - 1) : ~Defines(<<catalogues[j]>>, locale, domain, id)

HitsLocale ==
    /\ call.op = "trans"
    /\ try_into(call.locale).ok
    /\ Defines(bag, Requested(call), call.domain, call.id)

C16_State ==
    HitsLocale
    => LET first == bag[FirstDefining(bag, Requested(call), call.domain, call.id)]
           template == first.messages[call.domain][call.id]
       IN /\ call.out.via = "locale"
          /\ call.out.message = Some(template)
          /\ returned_by(call.out)
                = format(template, call.context.values, call.context.count).result

C16_Step ==
    bag' # bag
    => /\ call'.op \in {"insert", "append"}
       /\ Len(bag') > Len(bag)
       /\ SubSeq(bag', 1, Len(bag)) = bag
       /\ call'.op = "insert" => Len(bag') = Len(bag) + 1

C16_FirstCatalogue == [](C16_State) /\ [][C16_Step]_vars

(* Two English catalogues with different greetings: the one put in first   *)
(* answers.                                                                *)
C16_Witness ==
    /\ HitsLocale
    /\ Len(bag) = 2
    /\ Defines(<<bag[1]>>, English_Default, "messages", "greeting")
    /\ Defines(<<bag[2]>>, English_Default, "messages", "greeting")
    /\ bag[1].messages["messages"]["greeting"] = Howdy
    /\ bag[2].messages["messages"]["greeting"] = Hello
    /\ call.domain = "messages" /\ call.id = "greeting"
    /\ returned_by(call.out) = Ok(<<"h", "i", " ", "1">>)

(* C17: after any calls of insert, remove and remove_all on a catalogue,   *)
(* get(domain, id) is the message of the latest insert for the key that no *)
(* later remove(domain, id) or remove_all(domain) took away, None if there *)
(* is none; insert returns what was stored under the key before it and     *)
(* remove what it took away.                                               *)
Touches(entry, domain, id) ==
    \/ entry.op \in {"insert", "remove"} /\ entry.domain = domain /\ entry.id = id
    \/ entry.op = "remove_all" /\ entry.domain = domain

Stored(calls, domain, id) ==
    LET touching == {k \in 1..Len(calls) : Touches(calls[k], domain, id)} IN
    IF touching = {} THEN None
    ELSE LET latest == CHOOSE k \in touching : \A j \in touching : j <= k IN
         IF calls[latest].op = "insert" THEN Some(calls[latest].message) ELSE None

C17_CatalogueStore ==
    /\ \A domain \in Domains, id \in Ids :
          Catalogue_get(cat, domain, id) = Stored(history, domain, id)
    /\ \A k \in 1..Len(history) :
          history[k].op \in {"insert", "remove", "get"}
          => history[k].ret
                = Stored(SubSeq(history, 1, k - 1), history[k].domain, history[k].id)

(* A message replaced and then removed: each call returns what it found.   *)
C17_Witness ==
    /\ Len(history) = 3
    /\ history[1].op = "insert" /\ history[1].ret = None
    /\ history[2].op = "insert" /\ history[2].ret = Some(history[1].message)
    /\ history[2].message # history[1].message
    /\ history[3].op = "remove" /\ history[3].ret = Some(history[2].message)
    /\ Catalogue_get(cat, history[3].domain, history[3].id) = None

(* C18: what the default formatter returns does not depend on the locale   *)
(* it is handed: every locale gives the result the call gave, string or    *)
(* error; so a message found through the fallback locale is rendered as    *)
(* by a trans that asks for the fallback locale itself.                    *)
C18_LocaleIgnored ==
    /\ Done
       => \A locale \in Locales :
             formatter_format(locale, message, values, count)
                = [plural |-> plural, raw |-> raw, result |-> result]
    /\ (call.op = "trans" /\ call.out.formatted # None)
       => /\ \A locale \in Locales :
                formatter_format(locale, call.out.message[2],
                                 call.context.values, call.context.count)
                   = call.out.formatted[2]
          /\ call.out.via = "fallback"
             => returned_by(call.out)
                   = returned_by(trans(bag, fallback_locale,
                                       LocaleArg(fallback_locale[2]),
                                       call.domain, call.id,
                                       call.context.values, call.context.count))

(* A plural message asked in French and found in the English fallback.     *)
C18_Witness ==
    /\ call.op = "trans"
    /\ call.locale = LocaleArg(French_Default)
    /\ call.out.via = "fallback"
    /\ fallback_locale = Some(English_Default)
    /\ call.id = "apple"
    /\ returned_by(call.out) = Ok(<<"2">>)

-----------------------------------------------------------------------------
(* C19.  Whatever the template, the values and the count, format returns   *)
(* Ok(string) or a FormattingError: no slice of format_raw or of           *)
(* parse_plural_messages is taken out of bounds or off a char boundary,    *)
(* so that no call is unwound by a panic and no text it built holds the    *)
(* outcome of one.                                                         *)
IsPanic(text) == \E i \in 1..Len(text) : <<text[i]>> = Panic

C19_NoPanic ==
    Done
    => /\ result.kind \in {"Ok", "FormattingError"}
       /\ ~IsPanic(result.text)
       /\ raw # None => ~IsPanic(raw[2])
       /\ plural # None
          => /\ plural[2].kind \in {"Ok", "FormattingError"}
             /\ ~IsPanic(plural[2].default)
             /\ \A i \in 1..Len(plural[2].rules) :
                   ~IsPanic(plural[2].rules[i].message)

(* A brace followed by a two-byte char: the byte after the brace is no     *)
(* char of its own, and the call ends with an error.                       *)
C19_Witness ==
    /\ Done
    /\ Len(message) >= 3
    /\ message[1] \in {"{", "}"}
    /\ message[2] \in LeadBytes
    /\ message[3] \in ContinuationBytes
    /\ result.kind = "FormattingError"

-----------------------------------------------------------------------------
(* C20.  Whenever format succeeds, a { or } of the output is the one brace *)
(* emitted for an escape {{ or }} of the template, or a byte of the text   *)
(* of a value that a placeholder was replaced by: the output is, token by  *)
(* token, the literal text, one brace per escape and the text of each      *)
(* value as it is, and nothing that was emitted is read as a template      *)
(* again.                                                                  *)
ValueBraces(toks, i, vals, cnt, b) ==
    NumOf(b, concat([j \in 1..(Len(toks) - i + 1) |->
                        IF toks[j + i - 1].k = "ph"
                        THEN Outcome(toks, j + i - 1, vals, cnt).text
                        ELSE <<>>]))

C20_BracesFromEscapesOrValues ==
    (Done /\ raw # None /\ result.kind = "Ok")
    => LET toks == Lex(raw[2]) IN
       /\ NoneFails(toks, values, count)
       /\ result.text = Rendered(toks, values, count)
       /\ \A b \in {"{", "}"} :
             NumOf(b, result.text)
                = NumEsc(toks, b) + ValueBraces(toks, 1, values, count, b)

(* The statement without the values: every brace of the output is one of   *)
(* an escape of the template.                                              *)
C20_BracesFromEscapes ==
    (Done /\ raw # None /\ result.kind = "Ok")
    => \A b \in {"{", "}"} :
          NumOf(b, result.text) <= NumEsc(Lex(raw[2]), b)

(* The value {} is emitted for {a} and is not read as a placeholder.       *)
C20_Witness ==
    /\ Done /\ count = None
    /\ values = <<V(<<"a">>, <<"{", "}">>)>>
    /\ message = <<"{", "a", "}">>
    /\ result = Ok(<<"{", "}">>)

-----------------------------------------------------------------------------
(* C21.  The content of a placeholder is resolved in this order: literally *)
(* empty, it is indexed; else, trimmed, an unsigned integer, it is         *)
(* positional, whatever the names of the values; else the name of a value, *)
(* it is that value (the first of that name), also when the name is ?;     *)
(* else exactly ?, it is the count; anything else is the error "cannot     *)
(* find value".                                                            *)
Resolution(content, vals) ==
    CASE content = <<>> -> "indexed"
      [] content # <<>> /\ IsUnsignedText(trim(content)) -> "positional"
      [] content # <<>> /\ ~IsUnsignedText(trim(content))
         /\ HasName(vals, trim(content)) -> "named"
      [] content # <<>> /\ ~IsUnsignedText(trim(content))
         /\ ~HasName(vals, trim(content)) /\ trim(content) = <<"?">> -> "count"
      [] OTHER -> "error"

(* What a template of one placeholder returns, by the kind of its content. *)
Resolved(content, vals, cnt) ==
    LET kind == Resolution(content, vals)
        name == trim(content)
    IN
    CASE kind = "indexed" ->
            IF Len(vals) > 0 THEN Ok(vals[1].text) ELSE ErrIndexed(0, 0)
      [] kind = "positional" ->
            IF UnsignedOf(name) < Len(vals)
            THEN Ok(vals[UnsignedOf(name) + 1].text)
            ELSE ErrPositional(UnsignedOf(name), Len(vals))
      [] kind = "named" -> Ok(vals[FirstNamed(vals, name)].text)
      [] kind = "count" ->
            IF cnt # None THEN Ok(to_string(cnt[2])) ELSE ErrCount
      [] OTHER -> ErrCannotFind(name)

Collapsed(r, cnt) ==
    IF r.kind = "Ok" /\ cnt # None THEN Ok(CollapseRuns(r.text)) ELSE r

C21_Precedence ==
    (Done /\ raw # None)
    => \E toks \in {Lex(raw[2])} :
          /\ (Len(toks) = 1 /\ toks[1].k = "ph")
             => result = Collapsed(Resolved(toks[1].text, values, count), count)
          /\ \A i \in 1..Len(toks) :
                (toks[i].k = "ph" /\ Reached(toks, i, values, count))
                => \E outcome \in {Outcome(toks, i, values, count)} :
                      /\ ~IsIndexedTok(toks[i])
                         => outcome = Resolved(toks[i].text, values, count)
                      /\ outcome.kind # "Ok" => result = outcome
          /\ NoneFails(toks, values, count)
             => result = Ok(Rendered(toks, values, count))

(* {?} with a value named ? and a count renders that value; {1} with the  *)
(* value named 1 in first place renders the value in second place.         *)
C21_Witness ==
    /\ Done /\ count = Some(MaxCount)
    /\ values = <<V(<<"1">>, <<"|", "|">>), V(<<"?">>, <<"q">>), V(<<>>, <<"e">>)>>
    /\ message = <<"{", "?", "}", "{", "1", "}">>
    /\ result = Ok(<<"q", "q">>)

-----------------------------------------------------------------------------
(* C22.  Of several values of one name, {name} renders the first in the    *)
(* order of the context: in a template whose placeholders all go by name   *)
(* (none indexed, none positional) the later values of a name change       *)
(* nothing, the result is that of the context without them.                *)
RECURSIVE FirstOfEachName(_, _)
FirstOfEachName(vals, kept) ==
    IF vals = <<>> THEN kept
    ELSE IF HasName(kept, Head(vals).name)
    THEN FirstOfEachName(Tail(vals), kept)
    ELSE FirstOfEachName(Tail(vals), Append(kept, Head(vals)))

ByNameOnly(toks) ==
    \A i \in 1..Len(toks) :
       toks[i].k = "ph" => ~IsIndexedTok(toks[i]) /\ ~IsPositionalTok(toks[i])

C22_FirstOfName ==
    (Done /\ raw # None)
    => \E toks \in {Lex(raw[2])} :
          /\ \A i \in 1..Len(toks) :
                (IsNamedTok(toks[i], values) /\ Reached(toks, i, values, count))
                => Outcome(toks, i, values, count)
                      = Ok(values[FirstNamed(values, trim(toks[i].text))].text)
          /\ (ByNameOnly(toks) /\ FirstOfEachName(values, <<>>) # values)
             => result = format(message, FirstOfEachName(values, <<>>), count).result
          /\ (toks = <<Tok("ph", <<"a">>)>> /\ HasName(values, <<"a">>))
             => result = Collapsed(Ok(values[FirstNamed(values, <<"a">>)].text),
                                   count)

(* {a}{a} with two values named a renders the first of them twice.         *)
C22_Witness ==
    /\ Done /\ count = None
    /\ values = <<V(<<"a">>, <<"1">>), V(<<"a">>, <<"|">>)>>
    /\ message = <<"{", "a", "}", "{", "a", "}">>
    /\ result = Ok(<<"1", "1">>)

-----------------------------------------------------------------------------
(* C23.  The last segment of a split template is the default, whole: no    *)
(* rule is parsed from it, so that a clause in braces at its head stays in *)
(* the message, is substituted as a placeholder when the default is        *)
(* selected, and has no say in the counts the default is selected for:     *)
(* the default is rendered whenever no rule of the other segments holds.   *)
BeginsWithClause(seg) ==
    /\ Len(seg) >= 2 /\ seg[1] = "{" /\ seg[2] # "{"
    /\ Occurs("}", seg)

C23_DefaultIsNoRule ==
    (Done /\ count # None /\ trim(message) # <<>>)
    => LET segs == SegmentsOf(graphemes_of(trim(message)))
           last == segs[Len(segs)]
           toks == Lex(last)
       IN
       /\ plural[2].default = last
       /\ plural[2].kind = "Ok"
          => /\ Len(plural[2].rules) = Len(segs) - 1
             /\ (\A i \in 1..Len(plural[2].rules) :
                    ~RuleHolds(plural[2].rules[i].rule, count[2]))
                => /\ raw = Some(last)
                   /\ BeginsWithClause(last)
                      => /\ toks[1] = Tok("ph", ClauseOf(last))
                         /\ Fails(toks, 1, values, count)
                            => result = Outcome(toks, 1, values, count)
                   /\ NoneFails(toks, values, count)
                      => result = Ok(Rendered(toks, values, count))

(* The default {0}d is rendered for the count 2, and its {0} is the first  *)
(* value of the context.                                                   *)
C23_Witness ==
    /\ Done /\ count = Some(2)
    /\ message = <<"{", "0", "}", "a", "|", "{", "0", "}", "d">>
    /\ values = <<V(<<"a">>, <<"1">>)>>
    /\ result = Ok(<<"1", "d">>)

-----------------------------------------------------------------------------
(* C24.  With a count, the rules of all segments but the last are parsed   *)
(* before any of them is matched: when one of these segments has no        *)
(* well-formed rule, format fails, no message is selected, and the result  *)
(* is the same error for every count, the counts that a well-formed rule   *)
(* of an earlier segment holds for included.                               *)
EarlierRuleHolds(segs, b, c) ==
    \E n \in 1..(b - 1) : RuleHolds(parse_rule(ClauseOf(segs[n]), segs[n]).rule, c)

C24_ParsedBeforeMatched ==
    (Done /\ count # None /\ trim(message) # <<>>)
    => LET segs == SegmentsOf(graphemes_of(trim(message)))
           b == FirstFailing(segs)
       IN
       b # 0
       => /\ result.kind = "FormattingError"
          /\ raw = None
          /\ plural[2].rules = <<>>
          /\ \A c \in -1..(MaxCount + 1) :
                format(message, values, Some(c)).result = result

(* The count 0 holds for the rule {0} of the first segment, and the clause *)
(* {x} of the second makes the call fail.                                  *)
C24_Witness ==
    /\ Done /\ count = Some(0)
    /\ message = <<"{", "0", "}", "k", " ", "|", " ", "{", "x", "}", "k", " ", "|", " ", "d">>
    /\ EarlierRuleHolds(SegmentsOf(graphemes_of(trim(message))), 2, 0)
    /\ result.kind = "FormattingError"
    /\ raw = None

-----------------------------------------------------------------------------
(* C25.  With a count, placeholders are substituted in the selected        *)
(* message and in no other: the result is that of the selected message     *)
(* alone, Ok when none of its tokens fails, whatever placeholders without  *)
(* a value or braces out of balance the messages of the other segments     *)
(* hold, and the error of its first failing token otherwise.               *)
MessageFails(text, vals, cnt) == ~NoneFails(Lex(text), vals, cnt)

OtherMessages(pm, c) ==
    ({pm.rules[i].message : i \in 1..Len(pm.rules)} \cup {pm.default})
       \ {SelectedSegment(pm, c)}

C25_SelectedOnly ==
    (Done /\ count # None /\ plural # None /\ plural[2].kind = "Ok")
    => LET toks == Lex(SelectedSegment(plural[2], count[2])) IN
       /\ raw = Some(SelectedSegment(plural[2], count[2]))
       /\ NoneFails(toks, values, count)
          => result = Ok(Rendered(toks, values, count))
       /\ \A i \in 1..Len(toks) :
             (Reached(toks, i, values, count) /\ Fails(toks, i, values, count))
             => result = Outcome(toks, i, values, count)

(* The default d is rendered for the count 2 although the messages of both *)
(* rules fail when they are formatted.                                     *)
C25_Witness ==
    /\ Done /\ count = Some(2)
    /\ message = <<"{", "0", "}", "{", "b", "}", "|", "{", "1", "}", "}", "|", "d">>
    /\ plural # None /\ plural[2].kind = "Ok"
    /\ \A text \in OtherMessages(plural[2], 2) : MessageFails(text, values, count)
    /\ Cardinality(OtherMessages(plural[2], 2)) = 2
    /\ result = Ok(<<"d">>)

-----------------------------------------------------------------------------
(* C26.  When a catalogue of the requested locale defines (domain, id),    *)
(* trans returns what the formatter returns for that template, a           *)
(* FormattingError included, and the fallback locale is not looked up.     *)
(* The catalogues of the fallback locale are looked up once, after those   *)
(* of the requested locale and only when they lack the key; no locale is   *)
(* looked up after that, and trans changes neither the bag nor the         *)
(* fallback locale.                                                        *)
C26_State ==
    (call.op = "trans" /\ try_into(call.locale).ok)
    => /\ HitsLocale
          => /\ call.out.lookups = <<Requested(call)>>
             /\ call.out.via = "locale"
             /\ call.out.error = None
             /\ call.out.formatted # None
             /\ returned_by(call.out) = call.out.formatted[2].result
             /\ returned_by(call.out)
                   = format(bag[FirstDefining(bag, Requested(call), call.domain,
                                              call.id)].messages[call.domain][call.id],
                            call.context.values, call.context.count).result
       /\ MissesLocale
          => call.out.lookups
                = IF fallback_locale # None
                  THEN <<Requested(call), fallback_locale[2]>>
                  ELSE <<Requested(call)>>
       /\ call.out.via = "fallback" => MissesLocale

C26_Step ==
    call'.op = "trans" => bag' = bag /\ fallback_locale' = fallback_locale

C26_NoFallbackOnHit == [](C26_State) /\ [][C26_Step]_vars

(* English defines other/greeting with a template that does not format,    *)
(* French, the fallback, with one that does: the error is returned.        *)
C26_Witness ==
    /\ call.op = "trans" /\ call.locale = StrArg(<<"e", "n">>)
    /\ call.domain = "other" /\ call.id = "greeting"
    /\ fallback_locale = Some(French_Default)
    /\ Defines(bag, French_Default, "other", "greeting")
    /\ call.out.lookups = <<English_Default>>
    /\ returned_by(call.out).kind = "FormattingError"

-----------------------------------------------------------------------------
(* C27.  A placeholder with nothing between its braces is indexed: it      *)
(* takes the value at the number of such placeholders before it, or fails  *)
(* with the indexed error.  A placeholder with whitespace alone between    *)
(* its braces is not: it is looked up as the empty name, renders the first *)
(* value of that name or fails with cannot find value '', and takes no     *)
(* index from the placeholders after it.                                   *)
IsBlankTok(tok) == tok.k = "ph" /\ tok.text # <<>> /\ trim(tok.text) = <<>>

C27_EmptyIsIndexedBlankIsNamed ==
    (Done /\ raw # None)
    => \E toks \in {Lex(raw[2])} :
       /\ \A i \in 1..Len(toks) :
             (toks[i].k = "ph" /\ Reached(toks, i, values, count))
             => /\ IsIndexedTok(toks[i])
                   => LET index ==
                              Cardinality({j \in 1..(i - 1) : toks[j] = Tok("ph", <<>>)})
                      IN Outcome(toks, i, values, count)
                            = IF index < Len(values) THEN Ok(values[index + 1].text)
                              ELSE ErrIndexed(index, Len(values))
                /\ IsBlankTok(toks[i])
                   => Outcome(toks, i, values, count)
                         = IF HasName(values, <<>>)
                           THEN Ok(values[FirstNamed(values, <<>>)].text)
                           ELSE ErrCannotFind(<<>>)
                /\ Fails(toks, i, values, count)
                   => result = Outcome(toks, i, values, count)
       /\ NoneFails(toks, values, count)
          => result = Ok(Rendered(toks, values, count))

(* The statement with whitespace read as nothing: a template of one        *)
(* placeholder whose trimmed content is empty renders the first value.     *)
C27_BlankIsIndexed ==
    (Done /\ raw # None /\ Len(Lex(raw[2])) = 1 /\ Lex(raw[2])[1].k = "ph"
     /\ trim(Lex(raw[2])[1].text) = <<>>)
    => result = Collapsed(IF Len(values) > 0 THEN Ok(values[1].text)
                          ELSE ErrIndexed(0, 0), count)

(* { } renders the value of the empty name, in third place, and the {}     *)
(* after it the value in first place.                                      *)
C27_Witness ==
    /\ Done /\ count = None
    /\ message = <<"{", " ", "}", "{", "}">>
    /\ values = <<V(<<"1">>, <<"|", "|">>), V(<<"?">>, <<"q">>), V(<<>>, <<"e">>)>>
    /\ result = Ok(<<"e", "|", "|">>)

-----------------------------------------------------------------------------
(* C28.  With a count the collapse of || runs over the whole substituted   *)
(* output: a pair of pipes is collapsed wherever it lies, inside the text  *)
(* of a value or across the junction of a value and the template, so the   *)
(* output is shorter than the substituted text exactly when that text has  *)
(* a pair.  Without a count the text of every value stands in the output   *)
(* as it is, at the place of its placeholder.                              *)
HasPair(s) == \E p \in 1..(Len(s) - 1) : s[p] = "|" /\ s[p + 1] = "|"

Pieces(toks, vals, cnt) == [i \in 1..Len(toks) |-> Outcome(toks, i, vals, cnt).text]

C28_CollapseReachesValues ==
    (Done /\ raw # None /\ NoneFails(Lex(raw[2]), values, count))
    => LET toks == Lex(raw[2])
           pieces == Pieces(toks, values, count)
           sub == concat(pieces)
       IN
       /\ result.kind = "Ok"
       /\ count = None
          => \A i \in 1..Len(toks) :
                toks[i].k = "ph"
                => LET before == Len(concat(SubSeq(pieces, 1, i - 1))) IN
                   SubSeq(result.text, before + 1, before + Len(pieces[i])) = pieces[i]
       /\ count # None
          => /\ result.text = replace_pipes(sub)
             /\ HasPair(sub) <=> Len(result.text) < Len(sub)
             /\ \A i \in 1..Len(toks) :
                   (toks[i].k = "ph" /\ HasPair(pieces[i])) => result.text # sub

(* The pipe of a value and the pipe after its placeholder leave one pipe.  *)
C28_Witness ==
    /\ Done /\ count = Some(MaxCount)
    /\ message = <<"{", "1", "}", "|">>
    /\ values = <<V(<<"a">>, <<"1">>), V(<<"a">>, <<"|">>)>>
    /\ result = Ok(<<"|">>)

-----------------------------------------------------------------------------
(* C29.  For a template without a pipe that is not blank, and values       *)
(* without a pipe, format with the count c returns what format without a   *)
(* count returns on the trimmed template in which every placeholder that   *)
(* resolves to the count is written out as c (up to the first brace that   *)
(* is neither doubled nor closed, where the scan stops); with no such      *)
(* placeholder that is the trimmed template itself, and with one, where    *)
(* the call succeeds, the call without a count fails with the count error. *)
(* A blank template fails with a count, and without one its trimmed form   *)
(* renders the empty string.                                               *)
RECURSIVE CountWritten(_, _, _)
CountWritten(s, vals, c) ==
    IF s = <<>> THEN <<>>
    ELSE IF Len(s) >= 2 /\ s[1] \in {"{", "}"} /\ s[2] = s[1]
    THEN <<s[1], s[2]>> \o CountWritten(SubSeq(s, 3, Len(s)), vals, c)
    ELSE IF s[1] = "{" /\ Occurs("}", s)
    THEN (IF IsCountTok(Tok("ph", SubSeq(s, 2, FirstAt("}", s) - 1)), vals)
          THEN to_string(c)
          ELSE SubSeq(s, 1, FirstAt("}", s)))
         \o CountWritten(SubSeq(s, FirstAt("}", s) + 1, Len(s)), vals, c)
    ELSE IF s[1] \in {"{", "}"}
    THEN s
    ELSE LET braces == {i \in 1..Len(s) : s[i] \in {"{", "}"}}
             run(n) ==
                 SubSeq(s, 1, n) \o CountWritten(SubSeq(s, n + 1, Len(s)), vals, c)
         IN IF braces = {} THEN run(Len(s))
            ELSE run((CHOOSE i \in braces : \A j \in braces : i <= j) - 1)

NoPipes(msg, vals) ==
    /\ ~Occurs("|", msg)
    /\ \A i \in 1..Len(vals) : ~Occurs("|", vals[i].text)

C29_CountOnlyTrims ==
    /\ (Done /\ count # None /\ NoPipes(message, values) /\ ~IsBlank(message))
       => LET t == trim(message)
              written == CountWritten(t, values, count[2])
          IN
          /\ raw = Some(t)
          /\ result = format(written, values, None).result
          /\ (written # t /\ result.kind = "Ok")
             => format(t, values, None).result = ErrCount
    /\ (Done /\ count # None /\ IsBlank(message))
       => /\ result = ErrNoDefault
          /\ format(trim(message), values, None).result = Ok(<<>>)

(* The statement over every template without a pipe, the blank ones        *)
(* included.                                                               *)
C29_CountTrimsAlways ==
    (Done /\ count # None /\ NoPipes(message, values))
    => result = format(CountWritten(trim(message), values, count[2]), values, None).result

(* A padded template with a count placeholder renders the count between    *)
(* its literal and its value, the padding gone.                           *)
C29_Witness ==
    /\ Done /\ count = Some(-1)
    /\ message = <<" ", "a", "{", " ", "?", "}", "{", "b", "}", " ">>
    /\ values = <<V(<<"a">>, <<"1">>), V(<<"b">>, <<"2">>)>>
    /\ result = Ok(<<"a", "-", "1", "2">>)

-----------------------------------------------------------------------------
(* C30.  The catalogues of a trans call are chosen by equality of locale.  *)
(* The first lookup is of the requested locale, and a message found there  *)
(* is that of the first catalogue of exactly that locale that defines the  *)
(* key.  When none of them defines it, a catalogue of another variant of   *)
(* the same language gives the message only if its locale is the fallback  *)
(* locale; with no fallback the call fails with MessageNotFound for the    *)
(* requested locale, whatever the other variants define.                   *)
LanguageOf(locale) ==
    IF locale \in {English_Default, English_UnitedStates} THEN "en" ELSE "fr"

(* Another variant of the language of the locale defines the key.          *)
VariantDefines(catalogues, locale, domain, id) ==
    \E other \in Locales \ {locale} :
        /\ LanguageOf(other) = LanguageOf(locale)
        /\ Defines(catalogues, other, domain, id)

C30_ExactLocale ==
    (call.op = "trans" /\ try_into(call.locale).ok)
    => LET locale == Requested(call)
           out == call.out
           exact == Defines(bag, locale, call.domain, call.id)
       IN
       /\ out.lookups # <<>> /\ out.lookups[1] = locale
       /\ \A k \in 1..Len(out.lookups) :
             out.lookups[k] = locale
             \/ (fallback_locale # None /\ out.lookups[k] = fallback_locale[2])
       /\ exact
          => /\ out.via = "locale"
             /\ out.message
                   = Some(bag[FirstDefining(bag, locale, call.domain, call.id)]
                             .messages[call.domain][call.id])
             /\ out.lookups = <<locale>>
       /\ (~exact /\ fallback_locale = None)
          => /\ out.message = None
             /\ returned_by(out) = MessageNotFound(locale, call.domain, call.id)
       /\ (~exact /\ fallback_locale # None)
          => IF Defines(bag, fallback_locale[2], call.domain, call.id)
             THEN /\ out.via = "fallback"
                  /\ out.message
                        = Some(bag[FirstDefining(bag, fallback_locale[2],
                                                 call.domain, call.id)]
                                  .messages[call.domain][call.id])
             ELSE returned_by(out) = MessageNotFound(locale, call.domain, call.id)

(* fr_CA is requested with no fallback: the catalogue of fr defines the    *)
(* key, none of fr_CA does, and the call fails.                            *)
C30_Witness ==
    /\ call.op = "trans"
    /\ call.locale = StrArg(<<"f", "r", "-", "C", "A">>)
    /\ fallback_locale = None
    /\ VariantDefines(bag, French_Canada, call.domain, call.id)
    /\ ~Defines(bag, French_Canada, call.domain, call.id)
    /\ returned_by(call.out)
          = MessageNotFound(French_Canada, call.domain, call.id)

====
